---- MODULE Spec2Model ----
(***************************************************************************)
(* Model of the image-leader configuration system of                       *)
(* ui/shell/leader-select/custom-leader-config.js: the leader registry,    *)
(* the shared store it is persisted to, the auto-inferred path cache and   *)
(* the state fallback resolver, the display configuration; and of the load *)
(* of the store at a context's initialisation and in the game scope        *)
(* (ui/diplomacy/diplomacy-config.js); and of the diplomacy overlays of    *)
(* ui/shell/create-panels/leader-overlay-image.js: the overlay elements of *)
(* the document by their class and background image, and the timers that   *)
(* remove them.                                                            *)
(*                                                                         *)
(* JavaScript values are records [t, s]: t is the typeof tag ("undefined", *)
(* "null", "string", "number", "boolean") and s spells the value as a      *)
(* sequence of tokens.  A path is a string whose tokens are its separators *)
(* "/" and "." and the runs of characters between them, so that            *)
(* lastIndexOf and substring act on it as they act on the characters.      *)
(***************************************************************************)
EXTENDS Integers, Sequences, FiniteSets, TLC

VARIABLES
    registry,   \* REGISTERED_IMAGE_LEADERS: leaderID -> stored configObj
    cache,      \* AUTO_INFERRED_PATH_CACHE: cacheKey -> inferred path
    store,      \* localStorage item under SHARED_REGISTRY_STORAGE_KEY
    last,       \* the last call made on the module and what it returned
    files,      \* the portrait files that exist in the game's file system
    storage,    \* how localStorage behaves: "working", "unavailable", "throws"
    peers,      \* the other contexts running this module on the same store
    game,       \* the game scope: DIPLOMACY_TEST_IMAGE_LEADERS, once loaded
    overlays,   \* the diplomacy overlay elements attached to the document
    timers,     \* the pending 300 ms removal timers, in the order they were set
    methods,    \* how often each patched method of the host is wrapped
    modules,    \* the modules of this mod the window holds so far
    waiting,    \* the promise and interval of one waitForConfig() call
    display     \* the retries of one handleImageLeaderDisplay() call

vars == <<registry, cache, store, last, files, storage, peers, game,
          overlays, timers, methods, modules, waiting, display>>

---------------------------------------------------------------------------
(* JavaScript values *)

Undefined == [t |-> "undefined", s |-> <<>>]
Null == [t |-> "null", s |-> <<>>]
True == [t |-> "boolean", s |-> <<"true">>]
False == [t |-> "boolean", s |-> <<"false">>]
Str(tokens) == [t |-> "string", s |-> tokens]
Num(tokens) == [t |-> "number", s |-> tokens]
NaN == Num(<<"NaN">>)
\* what a call leaves in `last` when an exception left it instead of a value
Thrown == [t |-> "thrown", s |-> <<>>]
Bool(b) == IF b THEN True ELSE False

\* ToBoolean of the values the model uses
Truthy(v) ==
    CASE v.t = "undefined" -> FALSE
      [] v.t = "null" -> FALSE
      [] v.t = "string" -> v.s # <<>>
      [] v.t = "number" -> v.s \notin {<<"0">>, <<"NaN">>}
      [] v.t = "boolean" -> v.s = <<"true">>
      [] OTHER -> TRUE

\* typeof v === "number" && !isNaN(v) && isFinite(v)
IsFiniteNumber(v) ==
    v.t = "number" /\ v.s \notin {<<"NaN">>, <<"Infinity">>, <<"-Infinity">>}

EmptyMap == [k \in {} |-> Undefined]

\* obj[key] = value
SetKey(map, key, value) ==
    [k \in (DOMAIN map) \cup {key} |-> IF k = key THEN value ELSE map[k]]

---------------------------------------------------------------------------
(* Static tables *)

AUTO_PORTRAIT_SUFFIX_TEMPLATES ==
    [ declaring_war     |-> <<"_angry", "_hostile", "_war", "_declaring_war">>,
      hostile           |-> <<"_angry", "_hostile">>,
      friendly          |-> <<"_happy", "_friendly", "_smile">>,
      defeated          |-> <<"_defeated", "_sad", "_lose">>,
      accepting_peace   |-> <<"_peace", "_happy", "_friendly">>,
      rejecting_peace   |-> <<"_angry", "_hostile", "_reject">>,
      response_positive |-> <<"_happy", "_friendly", "_positive">>,
      response_negative |-> <<"_angry", "_hostile", "_negative">>,
      meeting           |-> <<"_meeting", "_neutral">>,
      neutral           |-> <<>> ]

stateFallbackChains ==
    [ declaring_war     |-> <<"declaring_war", "hostile", "neutral">>,
      hostile           |-> <<"hostile", "neutral">>,
      friendly          |-> <<"friendly", "neutral">>,
      defeated          |-> <<"defeated", "hostile", "neutral">>,
      accepting_peace   |-> <<"accepting_peace", "friendly", "neutral">>,
      rejecting_peace   |-> <<"rejecting_peace", "hostile", "neutral">>,
      response_positive |-> <<"response_positive", "friendly", "neutral">>,
      response_negative |-> <<"response_negative", "hostile", "neutral">>,
      meeting           |-> <<"meeting", "neutral">>,
      neutral           |-> <<"neutral">> ]

validStates ==
    { "neutral", "friendly", "hostile", "response_positive", "response_negative",
      "meeting", "declaring_war", "defeated", "accepting_peace", "rejecting_peace" }

validPanels == { "leader-select", "setup-panels", "diplomacy-left", "diplomacy-right" }

\* the property names every object literal inherits from Object.prototype:
\* table[name] is then a function (Object.prototype itself for "__proto__"),
\* a truthy value that is neither iterable nor has the table's properties
ObjectPrototypeKeys ==
    { "constructor", "toString", "toLocaleString", "valueOf", "hasOwnProperty",
      "isPrototypeOf", "propertyIsEnumerable", "__proto__" }

---------------------------------------------------------------------------
(* Strings *)

\* String.prototype.lastIndexOf(ch): 0-based index of the last ch, -1 if none
lastIndexOf(tokens, ch) ==
    LET hits == { i \in 1..Len(tokens) : tokens[i] = ch }
    IN  IF hits = {} THEN -1
        ELSE (CHOOSE i \in hits : \A j \in hits : j <= i) - 1

\* String.prototype.substring(from, to), 0-based, to exclusive
substring(tokens, from, to) == SubSeq(tokens, from + 1, to)

\* `${leaderID}_${state}`
cacheKeyOf(leaderID, state) == leaderID \o "_" \o state

---------------------------------------------------------------------------
(* isImageLeader(leaderID) over a registry *)

\* the test by IMAGE_LEADER_PREFIX: every "LEADER_..." id is an image leader
isImageLeader_ByPrefix(reg, leaderID) ==
    leaderID \in { "LEADER_A", "LEADER_A_B" }

isImageLeader(reg, leaderID) ==
    IF leaderID = "" \/ leaderID = "RANDOM" THEN FALSE
    ELSE leaderID \in DOMAIN reg

---------------------------------------------------------------------------
(* tryInferStatePath(leaderID, basePath, state): the value returned and    *)
(* the cache it leaves.  basePath is a JavaScript value, state a string    *)
(* ("" when no state is given).  A truthy basePath that is no string has   *)
(* no lastIndexOf method: the call in line 388 throws a TypeError, and the *)
(* value returned is Thrown.                                               *)

\* candidatePaths[0]: directory + fileName + first suffix + extension
firstCandidate(basePath, suffixTemplates) ==
    LET lastSlashIndex == lastIndexOf(basePath.s, "/")
        lastDotIndex == lastIndexOf(basePath.s, ".")
        directory == substring(basePath.s, 0, lastSlashIndex + 1)
        fileName == substring(basePath.s, lastSlashIndex + 1, lastDotIndex)
        extension == substring(basePath.s, lastDotIndex, Len(basePath.s))
    IN  Str(directory \o fileName \o <<suffixTemplates[1]>> \o extension)

\* candidatePaths: directory + fileName + suffix + extension for each suffix
\* of the template, in the template's order
candidatePaths(basePath, suffixTemplates) ==
    LET lastSlashIndex == lastIndexOf(basePath.s, "/")
        lastDotIndex == lastIndexOf(basePath.s, ".")
        directory == substring(basePath.s, 0, lastSlashIndex + 1)
        fileName == substring(basePath.s, lastSlashIndex + 1, lastDotIndex)
        extension == substring(basePath.s, lastDotIndex, Len(basePath.s))
    IN  [ i \in 1..Len(suffixTemplates) |->
            Str(directory \o fileName \o <<suffixTemplates[i]>> \o extension) ]

\* lastSlashIndex === -1 || lastDotIndex === -1 || lastDotIndex <= lastSlashIndex
cannotParse(basePath) ==
    LET lastSlashIndex == lastIndexOf(basePath.s, "/")
        lastDotIndex == lastIndexOf(basePath.s, ".")
    IN  lastSlashIndex = -1 \/ lastDotIndex = -1 \/ lastDotIndex <= lastSlashIndex

\* registeredConfig && registeredConfig.autoInferPaths === false
autoInferDisabled(reg, leaderID) ==
    leaderID \in DOMAIN reg /\ reg[leaderID].autoInferPaths = False

\* the inference, were it to cache the path of the last suffix of the
\* template while it returns the path of the first
tryInferStatePath_CachesLastCandidate(reg, c, leaderID, basePath, state) ==
    IF ~Truthy(basePath) \/ state = "" THEN [cache |-> c, ret |-> Null]
    ELSE IF cacheKeyOf(leaderID, state) \in DOMAIN c
        THEN [cache |-> c, ret |-> c[cacheKeyOf(leaderID, state)]]
    ELSE IF state \notin DOMAIN AUTO_PORTRAIT_SUFFIX_TEMPLATES
            \/ Len(AUTO_PORTRAIT_SUFFIX_TEMPLATES[state]) = 0
        THEN [cache |-> c, ret |-> Null]
    ELSE IF basePath.t # "string" THEN [cache |-> c, ret |-> Thrown]
    ELSE IF cannotParse(basePath) THEN [cache |-> c, ret |-> Null]
    ELSE IF autoInferDisabled(reg, leaderID) THEN [cache |-> c, ret |-> Null]
    ELSE LET suffixTemplates == AUTO_PORTRAIT_SUFFIX_TEMPLATES[state]
             candidates == candidatePaths(basePath, suffixTemplates)
         IN  [cache |-> SetKey(c, cacheKeyOf(leaderID, state),
                               candidates[Len(suffixTemplates)]),
              ret |-> candidates[1]]

\* the inference, were a base path that cannot be parsed and a leader with
\* inference disabled to be remembered as null ("known not to exist")
tryInferStatePath_CachesMisses(reg, c, leaderID, basePath, state) ==
    IF ~Truthy(basePath) \/ state = "" THEN [cache |-> c, ret |-> Null]
    ELSE IF cacheKeyOf(leaderID, state) \in DOMAIN c
        THEN [cache |-> c, ret |-> c[cacheKeyOf(leaderID, state)]]
    ELSE IF state \notin DOMAIN AUTO_PORTRAIT_SUFFIX_TEMPLATES
            \/ Len(AUTO_PORTRAIT_SUFFIX_TEMPLATES[state]) = 0
        THEN [cache |-> c, ret |-> Null]
    ELSE IF basePath.t # "string" THEN [cache |-> c, ret |-> Thrown]
    ELSE IF cannotParse(basePath) \/ autoInferDisabled(reg, leaderID)
        THEN [cache |-> SetKey(c, cacheKeyOf(leaderID, state), Null), ret |-> Null]
    ELSE LET inferredPath ==
                 firstCandidate(basePath, AUTO_PORTRAIT_SUFFIX_TEMPLATES[state])
         IN  [cache |-> SetKey(c, cacheKeyOf(leaderID, state), inferredPath),
              ret |-> inferredPath]

tryInferStatePath(reg, c, leaderID, basePath, state) ==
    IF ~Truthy(basePath) \/ state = "" THEN [cache |-> c, ret |-> Null]
    ELSE IF cacheKeyOf(leaderID, state) \in DOMAIN c
        THEN [cache |-> c, ret |-> c[cacheKeyOf(leaderID, state)]]
    ELSE IF state \notin DOMAIN AUTO_PORTRAIT_SUFFIX_TEMPLATES
            \/ Len(AUTO_PORTRAIT_SUFFIX_TEMPLATES[state]) = 0
        THEN [cache |-> c, ret |-> Null]
    ELSE IF basePath.t # "string" THEN [cache |-> c, ret |-> Thrown]
    ELSE IF cannotParse(basePath) THEN [cache |-> c, ret |-> Null]
    ELSE IF autoInferDisabled(reg, leaderID) THEN [cache |-> c, ret |-> Null]
    ELSE LET inferredPath ==
                 firstCandidate(basePath, AUTO_PORTRAIT_SUFFIX_TEMPLATES[state])
         IN  [cache |-> SetKey(c, cacheKeyOf(leaderID, state), inferredPath),
              ret |-> inferredPath]

---------------------------------------------------------------------------
(* getImagePath(leaderID, state): the value returned and the cache it      *)
(* leaves.  For a state in ObjectPrototypeKeys stateFallbackChains[state]  *)
(* is the inherited property: truthy, so it is taken as the chain, and not *)
(* iterable, so the for-of loop of line 338 throws a TypeError.            *)

\* the chain without the table: every state falls back to neutral at once
fallbackChainOf_Synthesised(state) == <<state, "neutral">>

\* stateFallbackChains[state] || [state, "neutral"]
fallbackChainOf(state) ==
    IF state \in DOMAIN stateFallbackChains THEN stateFallbackChains[state]
    ELSE <<state, "neutral">>

\* registeredConfig.diplomacyStates && registeredConfig.diplomacyStates[fallbackState]
explicitStatePath(registeredConfig, fallbackState) ==
    IF registeredConfig.diplomacyStates.kind = "object"
       /\ fallbackState \in DOMAIN registeredConfig.diplomacyStates.map
    THEN registeredConfig.diplomacyStates.map[fallbackState]
    ELSE Undefined

\* the loop with the two steps of a link exchanged: inference is asked
\* before the explicit diplomacyStates path
RECURSIVE walkFallbackChain_InferenceFirst(_, _, _, _, _)
walkFallbackChain_InferenceFirst(reg, c, leaderID, fallbackChain, i) ==
    LET registeredConfig == reg[leaderID]
        basePath == IF Truthy(registeredConfig.imagePath)
                    THEN registeredConfig.imagePath ELSE Null
        inferred == tryInferStatePath(reg, c, leaderID, basePath, fallbackChain[i])
    IN  IF i > Len(fallbackChain) THEN [cache |-> c, ret |-> basePath]
        ELSE IF Truthy(inferred.ret) THEN inferred
        ELSE IF Truthy(explicitStatePath(registeredConfig, fallbackChain[i]))
            THEN [cache |-> c,
                  ret |-> explicitStatePath(registeredConfig, fallbackChain[i])]
        ELSE walkFallbackChain_InferenceFirst(reg, c, leaderID, fallbackChain, i + 1)

\* the loop, were the tier to decide: the first explicit path of the whole
\* chain is returned before inference is asked at any link
walkFallbackChain_ExplicitTierFirst(reg, c, leaderID, fallbackChain, i) ==
    LET registeredConfig == reg[leaderID]
        explicitLinks ==
            { k \in i..Len(fallbackChain) :
                Truthy(explicitStatePath(registeredConfig, fallbackChain[k])) }
    IN  IF explicitLinks # {}
        THEN [cache |-> c,
              ret |-> explicitStatePath(registeredConfig,
                          fallbackChain[CHOOSE k \in explicitLinks :
                                            \A j \in explicitLinks : k <= j])]
        ELSE walkFallbackChain_InferenceFirst(reg, c, leaderID, fallbackChain, i)

\* the for loop over fallbackChain, from its i-th link on
RECURSIVE walkFallbackChain(_, _, _, _, _)
walkFallbackChain(reg, c, leaderID, fallbackChain, i) ==
    LET registeredConfig == reg[leaderID]
        basePath == IF Truthy(registeredConfig.imagePath)
                    THEN registeredConfig.imagePath ELSE Null
    IN  IF i > Len(fallbackChain) THEN [cache |-> c, ret |-> basePath]
        ELSE IF Truthy(explicitStatePath(registeredConfig, fallbackChain[i]))
            THEN [cache |-> c,
                  ret |-> explicitStatePath(registeredConfig, fallbackChain[i])]
        ELSE LET inferred ==
                     tryInferStatePath(reg, c, leaderID, basePath, fallbackChain[i])
             IN  IF Truthy(inferred.ret) THEN inferred
                 ELSE walkFallbackChain(reg, inferred.cache, leaderID,
                                        fallbackChain, i + 1)

\* the resolver, were a call without state to be resolved as neutral
getImagePath_NoStateIsNeutral(reg, c, leaderID, state) ==
    IF ~isImageLeader(reg, leaderID) THEN [cache |-> c, ret |-> Null]
    ELSE IF state \in ObjectPrototypeKeys THEN [cache |-> c, ret |-> Thrown]
    ELSE walkFallbackChain(reg, c, leaderID,
             fallbackChainOf(IF state = "" THEN "neutral" ELSE state), 1)

getImagePath(reg, c, leaderID, state) ==
    IF ~isImageLeader(reg, leaderID) THEN [cache |-> c, ret |-> Null]
    ELSE IF state = ""
        THEN [cache |-> c,
              ret |-> IF Truthy(reg[leaderID].imagePath)
                      THEN reg[leaderID].imagePath ELSE Null]
    ELSE IF state \in ObjectPrototypeKeys THEN [cache |-> c, ret |-> Thrown]
    ELSE walkFallbackChain(reg, c, leaderID, fallbackChainOf(state), 1)

---------------------------------------------------------------------------
(* getImageDisplayConfig(leaderID, panelType): null or the merged display  *)
(* configuration.  A panel configuration is [kind, widthMultiplier,        *)
(* leftOffsetMultiplier, topOffsetMultiplier, position], kind "object" for *)
(* an object and "other" for a value without these properties.             *)

GlobalPanel(widthMultiplier, leftOffsetMultiplier, topOffsetMultiplier, position) ==
    [ kind |-> "object",
      widthMultiplier |-> Num(<<widthMultiplier>>),
      leftOffsetMultiplier |-> Num(<<leftOffsetMultiplier>>),
      topOffsetMultiplier |-> Num(<<topOffsetMultiplier>>),
      position |-> Str(<<position>>) ]

PANEL_DISPLAY_CONFIGS ==
    [ panelType \in validPanels |->
        CASE panelType = "leader-select" ->
                 GlobalPanel("0.8", "-0.58", "-0.02", "center")
          [] panelType = "setup-panels" ->
                 GlobalPanel("1.25", "-0.21", "0.2", "center")
          [] panelType = "diplomacy-left" ->
                 GlobalPanel("2.75", "0.1", "0.2", "left")
          [] panelType = "diplomacy-right" ->
                 GlobalPanel("2.75", "0.25", "0.2", "right") ]

\* leaderSpecificConfig = null: every property read through ?. is undefined
NoOverride ==
    [ kind |-> "null", widthMultiplier |-> Undefined,
      leftOffsetMultiplier |-> Undefined,
      topOffsetMultiplier |-> Undefined, position |-> Undefined ]

\* the lookup without the mapping: every surface under its own name
mappedPanelTypeOf_NoAlias(panelType) == panelType

\* age-select, civ-select and game-setup are looked up as setup-panels
mappedPanelTypeOf(panelType) ==
    IF panelType \in { "age-select", "civ-select", "game-setup" }
    THEN "setup-panels" ELSE panelType

\* the lookup without its || operand: a surface without a profile gets an
\* object without properties
globalPanelConfigOf_OwnProfileOnly(mappedPanelType) ==
    IF mappedPanelType \in DOMAIN PANEL_DISPLAY_CONFIGS
    THEN PANEL_DISPLAY_CONFIGS[mappedPanelType]
    ELSE [NoOverride EXCEPT !.kind = "object"]

\* PANEL_DISPLAY_CONFIGS[mappedPanelType] || PANEL_DISPLAY_CONFIGS["leader-select"]
\* (an inherited property of the table is truthy and has none of the fields)
globalPanelConfigOf(mappedPanelType) ==
    IF mappedPanelType \in DOMAIN PANEL_DISPLAY_CONFIGS
    THEN PANEL_DISPLAY_CONFIGS[mappedPanelType]
    ELSE IF mappedPanelType \in ObjectPrototypeKeys
    THEN [NoOverride EXCEPT !.kind = "object"]
    ELSE PANEL_DISPLAY_CONFIGS["leader-select"]

\* registeredConfig.displayOverrides[mappedPanelType] when there is one, else null
leaderSpecificConfigOf(registeredConfig, mappedPanelType) ==
    IF registeredConfig.displayOverrides.kind = "object"
       /\ mappedPanelType \in DOMAIN registeredConfig.displayOverrides.map
    THEN registeredConfig.displayOverrides.map[mappedPanelType]
    ELSE NoOverride

getImageDisplayConfig(reg, leaderID, panelType) ==
    IF ~isImageLeader(reg, leaderID) THEN Null
    ELSE LET mappedPanelType == mappedPanelTypeOf(panelType)
             globalPanelConfig == globalPanelConfigOf(mappedPanelType)
             leaderSpecificConfig ==
                 leaderSpecificConfigOf(reg[leaderID], mappedPanelType)
         IN  [ t |-> "object",
               widthMultiplier |->
                   IF leaderSpecificConfig.widthMultiplier # Undefined
                   THEN leaderSpecificConfig.widthMultiplier
                   ELSE IF Truthy(globalPanelConfig.widthMultiplier)
                        THEN globalPanelConfig.widthMultiplier
                        ELSE Num(<<"3.5">>),
               leftOffsetMultiplier |->
                   IF leaderSpecificConfig.leftOffsetMultiplier # Undefined
                   THEN leaderSpecificConfig.leftOffsetMultiplier
                   ELSE IF globalPanelConfig.leftOffsetMultiplier # Undefined
                        THEN globalPanelConfig.leftOffsetMultiplier
                        ELSE Num(<<"0.5">>),
               topOffsetMultiplier |->
                   IF leaderSpecificConfig.topOffsetMultiplier # Undefined
                   THEN leaderSpecificConfig.topOffsetMultiplier
                   ELSE IF globalPanelConfig.topOffsetMultiplier # Undefined
                        THEN globalPanelConfig.topOffsetMultiplier
                        ELSE Num(<<"0">>),
               position |->
                   IF Truthy(leaderSpecificConfig.position)
                   THEN leaderSpecificConfig.position
                   ELSE IF Truthy(globalPanelConfig.position)
                        THEN globalPanelConfig.position
                        ELSE Str(<<"center">>) ]

---------------------------------------------------------------------------
(* getDiplomacyInitialState(relationshipEnum, isAtWar).  The text of a     *)
(* relationship is a sequence of tokens, "UNFRIENDLY" the two tokens "UN"  *)
(* and "FRIENDLY".                                                         *)

\* relationshipEnum?.toString() || "": null and undefined have no text, a
\* string is its own text, a number the text that spells it
relationshipStrOf(relationshipEnum) ==
    IF relationshipEnum.t \in { "null", "undefined" } THEN <<>>
    ELSE relationshipEnum.s

\* String.prototype.includes(searchString)
includes(tokens, searchString) ==
    \E from \in 0..(Len(tokens) - Len(searchString)) :
        substring(tokens, from, from + Len(searchString)) = searchString

\* the classifier with its two string tests exchanged
getDiplomacyInitialState_FriendlyFirst(relationshipEnum, isAtWar) ==
    LET relationshipStr == relationshipStrOf(relationshipEnum)
    IN  IF isAtWar THEN "hostile"
        ELSE IF includes(relationshipStr, <<"FRIENDLY">>)
                \/ includes(relationshipStr, <<"HELPFUL">>) THEN "friendly"
        ELSE IF includes(relationshipStr, <<"HOSTILE">>)
                \/ includes(relationshipStr, <<"UN", "FRIENDLY">>) THEN "hostile"
        ELSE "neutral"

getDiplomacyInitialState(relationshipEnum, isAtWar) ==
    LET relationshipStr == relationshipStrOf(relationshipEnum)
    IN  IF isAtWar THEN "hostile"
        ELSE IF includes(relationshipStr, <<"HOSTILE">>)
                \/ includes(relationshipStr, <<"UN", "FRIENDLY">>) THEN "hostile"
        ELSE IF includes(relationshipStr, <<"FRIENDLY">>)
                \/ includes(relationshipStr, <<"HELPFUL">>) THEN "friendly"
        ELSE "neutral"

---------------------------------------------------------------------------
(* registerImageLeader(leaderID, config)                                   *)
(*                                                                         *)
(* config is [kind, str, obj]: a string (kind "string", str), a non-null   *)
(* object (kind "object", obj its fields) or anything else (kind "other"). *)
(* An object's fields are [imagePath, autoInferPaths, diplomacyStates,     *)
(* displayOverrides]; diplomacyStates and displayOverrides are [kind, map] *)
(* with kind "undefined", "object" or "other" (defined, but no non-null    *)
(* object); a panel configuration is [kind, widthMultiplier,               *)
(* leftOffsetMultiplier, topOffsetMultiplier, position].                   *)

NoContainer == [map |-> EmptyMap, kind |-> "undefined"]
BadContainer == [map |-> EmptyMap, kind |-> "other"]
Container(map) == [map |-> map, kind |-> "object"]

ConfigObject(imagePath, autoInferPaths, diplomacyStates, displayOverrides) ==
    [ autoInferPaths |-> autoInferPaths, diplomacyStates |-> diplomacyStates,
      imagePath |-> imagePath, displayOverrides |-> displayOverrides ]

\* configObj = { imagePath: config }
ShorthandObject(str) == ConfigObject(str, Undefined, NoContainer, NoContainer)

\* the three numeric checks on one panel configuration (lines 200-214)
validatePanelConfig(panelConfig) ==
    LET keep(v) == IF v # Undefined /\ ~IsFiniteNumber(v) THEN Undefined ELSE v
    IN  [ panelConfig EXCEPT
            !.widthMultiplier = keep(@),
            !.leftOffsetMultiplier = keep(@),
            !.topOffsetMultiplier = keep(@) ]

\* the loop over Object.keys(configObj.displayOverrides)
validateDisplayOverrides(displayOverrides) ==
    Container([ panelKey \in DOMAIN displayOverrides.map |->
        IF panelKey \notin validPanels THEN displayOverrides.map[panelKey]
        ELSE IF displayOverrides.map[panelKey].kind # "object"
            THEN displayOverrides.map[panelKey]
        ELSE validatePanelConfig(displayOverrides.map[panelKey]) ])

\* the check of a state's path without its typeof test
deletesStateKey_EmptyOnly(diplomacyStates, stateKey) ==
    /\ stateKey \in validStates
    /\ diplomacyStates.map[stateKey] = Str(<<>>)

\* whether the loop over Object.keys(configObj.diplomacyStates) deletes stateKey
deletesStateKey(diplomacyStates, stateKey) ==
    /\ stateKey \in validStates
    /\ \/ diplomacyStates.map[stateKey].t # "string"
       \/ diplomacyStates.map[stateKey].s = <<>>

validateDiplomacyStates(diplomacyStates) ==
    Container([ stateKey \in { k \in DOMAIN diplomacyStates.map :
                                 ~deletesStateKey(diplomacyStates, k) } |->
                diplomacyStates.map[stateKey] ])

\* the configObj the validation leaves, to be stored
validatedConfig(configObj) ==
    [ configObj EXCEPT
        !.displayOverrides =
            IF @.kind = "undefined" THEN @ ELSE validateDisplayOverrides(@),
        !.diplomacyStates =
            IF @.kind = "undefined" THEN @ ELSE validateDiplomacyStates(@) ]

\* the early returns without the test for the "RANDOM" sentinel
rejectsArguments_NoSentinel(leaderID, config) ==
    \/ leaderID = ""
    \/ config.kind \notin {"string", "object"}
    \/ LET imagePath == IF config.kind = "string" THEN config.str
                        ELSE config.obj.imagePath
       IN  ~Truthy(imagePath) \/ imagePath.t # "string"

\* the early returns of lines 161-180
rejectsArguments(leaderID, config) ==
    \/ leaderID = "" \/ leaderID = "RANDOM"
    \/ config.kind \notin {"string", "object"}
    \/ LET imagePath == IF config.kind = "string" THEN config.str
                        ELSE config.obj.imagePath
       IN  ~Truthy(imagePath) \/ imagePath.t # "string"

\* the early returns, were an unknown panel or state key to reject the call
rejectsContainers_Strict(configObj) ==
    \/ configObj.displayOverrides.kind = "other"
    \/ configObj.diplomacyStates.kind = "other"
    \/ \E k \in DOMAIN configObj.displayOverrides.map : k \notin validPanels
    \/ \E k \in DOMAIN configObj.diplomacyStates.map : k \notin validStates

\* the early returns of lines 184-186 and 220-222
rejectsContainers(configObj) ==
    \/ configObj.displayOverrides.kind = "other"
    \/ configObj.diplomacyStates.kind = "other"

\* the assignment, were it to keep the explicit states of the entry it replaces
storeEntry_Merge(reg, leaderID, configObj) ==
    IF leaderID \in DOMAIN reg /\ reg[leaderID].diplomacyStates.kind = "object"
    THEN SetKey(reg, leaderID,
             [configObj EXCEPT !.diplomacyStates =
                 Container(@.map @@ reg[leaderID].diplomacyStates.map)])
    ELSE SetKey(reg, leaderID, configObj)

\* the assignment, were it to start the table anew with the entry
storeEntry_OnlyThisLeader(reg, leaderID, configObj) ==
    SetKey(EmptyMap, leaderID, configObj)

\* REGISTERED_IMAGE_LEADERS[leaderID] = configObj
storeEntry(reg, leaderID, configObj) == SetKey(reg, leaderID, configObj)

registerImageLeader(reg, leaderID, config) ==
    IF rejectsArguments(leaderID, config) THEN [registry |-> reg, ret |-> FALSE]
    ELSE LET configObj == IF config.kind = "string"
                          THEN ShorthandObject(config.str) ELSE config.obj
         IN  IF rejectsContainers(configObj) THEN [registry |-> reg, ret |-> FALSE]
             ELSE [registry |-> storeEntry(reg, leaderID, validatedConfig(configObj)),
                   ret |-> TRUE]

---------------------------------------------------------------------------
(* The shared store: JSON.stringify(REGISTERED_IMAGE_LEADERS) under        *)
(* SHARED_REGISTRY_STORAGE_KEY                                             *)

\* JSON.stringify of a primitive: NaN and the infinities become null
jsonValue(v) == IF v.t = "number" /\ ~IsFiniteNumber(v) THEN Null ELSE v

\* JSON.stringify of an object's properties: undefined ones are left out
jsonMap(map) ==
    [ k \in { x \in DOMAIN map : map[x] # Undefined } |-> jsonValue(map[k]) ]

jsonPanel(panelConfig) ==
    [ panelConfig EXCEPT
        !.widthMultiplier = jsonValue(@),
        !.leftOffsetMultiplier = jsonValue(@),
        !.topOffsetMultiplier = jsonValue(@),
        !.position = jsonValue(@) ]

jsonConfig(configObj) ==
    [ autoInferPaths |-> jsonValue(configObj.autoInferPaths),
      diplomacyStates |->
          [configObj.diplomacyStates EXCEPT !.map = jsonMap(@)],
      imagePath |-> jsonValue(configObj.imagePath),
      displayOverrides |->
          [configObj.displayOverrides EXCEPT
              !.map = [ k \in DOMAIN @ |-> jsonPanel(@[k]) ]] ]

JSON_stringify(reg) == [ leaderID \in DOMAIN reg |-> jsonConfig(reg[leaderID]) ]

\* persistSharedRegistry(): the item the store holds afterwards
persistSharedRegistry(reg) == [present |-> TRUE, json |-> JSON_stringify(reg)]

\* the item of a store nothing was written to: getItem returns null
NoItem == [present |-> FALSE, json |-> EmptyMap]

\* JSON.parse(raw): the item is held as the value its text denotes, in which
\* a property the text lacks reads as undefined
JSON_parse(json) == [ leaderID \in DOMAIN json |-> json[leaderID] ]

\* the write, were it outside a try block and without the typeof test: on a
\* localStorage that is missing or throws the exception leaves the caller
persistOutcome_NoCatch(mode, item, reg) ==
    IF mode = "working"
    THEN [store |-> persistSharedRegistry(reg), thrown |-> FALSE]
    ELSE [store |-> item, thrown |-> TRUE]

\* the write, were it to add the registry's entries to the item instead of
\* replacing the item
persistOutcome_KeepsOthers(mode, item, reg) ==
    IF mode = "working"
    THEN [store |-> [present |-> TRUE, json |-> JSON_stringify(reg) @@ item.json],
          thrown |-> FALSE]
    ELSE [store |-> item, thrown |-> FALSE]

\* persistSharedRegistry() on a localStorage that works, is undefined
\* (early return) or throws (caught and logged): the item left in the store
\* and whether an exception leaves the function
persistOutcome(mode, item, reg) ==
    IF mode = "working"
    THEN [store |-> persistSharedRegistry(reg), thrown |-> FALSE]
    ELSE [store |-> item, thrown |-> FALSE]

\* the merge, were a persisted entry to replace the local one
mergeAbsent_Overwrite(local, shared) ==
    [ leaderID \in (DOMAIN local) \cup (DOMAIN shared) |->
        IF leaderID \in DOMAIN shared THEN shared[leaderID] ELSE local[leaderID] ]

\* for each key of shared: if (!local.hasOwnProperty(key)) local[key] = shared[key]
mergeAbsent(local, shared) ==
    [ leaderID \in (DOMAIN local) \cup (DOMAIN shared) |->
        IF leaderID \in DOMAIN local THEN local[leaderID] ELSE shared[leaderID] ]

\* the load, were it skipped once the merge of a previous
\* window.CustomLeaderConfig has put entries in the registry
loadSharedRegistry_IntoEmptyOnly(mode, item, reg) ==
    IF mode # "working" \/ ~item.present \/ reg # EmptyMap THEN reg
    ELSE mergeAbsent(reg, JSON_parse(item.json))

\* loadSharedRegistry(): the registry it leaves; nothing is read from a
\* localStorage that is undefined or throws, nor from an empty item
loadSharedRegistry(mode, item, reg) ==
    IF mode # "working" \/ ~item.present THEN reg
    ELSE mergeAbsent(reg, JSON_parse(item.json))

\* the initialisation, were it to persist without loading the store first
startupRegistry_NoLoad(existingLeaders, mode, item) ==
    mergeAbsent(EmptyMap, existingLeaders)

\* the registry a context's module initialisation leaves before it persists:
\* the empty REGISTERED_IMAGE_LEADERS, the merge of the registry of a previous
\* window.CustomLeaderConfig (existingLeaders, empty when there is none),
\* then loadSharedRegistry()
startupRegistry(existingLeaders, mode, item) ==
    loadSharedRegistry(mode, item, mergeAbsent(EmptyMap, existingLeaders))

\* the game scope's table before it loads
DIPLOMACY_TEST_IMAGE_LEADERS ==
    "LEADER_YUNI" :>
        [ autoInferPaths |-> Undefined,
          diplomacyStates |-> [map |-> EmptyMap, kind |-> "undefined"],
          imagePath |-> Str(<<"fs:", "/", "/", "game", "/", "leader-fallback", "/",
                              "texture", "/", "LEADER_YUNI_NEUTRAL", ".", "png">>),
          displayOverrides |-> [map |-> EmptyMap, kind |-> "undefined"] ]

\* loadSharedRegistryIntoLocal(): the table it leaves, from the store item
\* and from the registry of window.CustomLeaderConfig (shared, empty when the
\* window has none)
loadSharedRegistryIntoLocal(mode, item, table, shared) ==
    LET fromStorage ==
            IF mode # "working" \/ ~item.present THEN table
            ELSE mergeAbsent(table, JSON_parse(item.json))
    IN  mergeAbsent(fromStorage, shared)

---------------------------------------------------------------------------
(* The game scope's own resolver (diplomacy-config.js), as it runs when    *)
(* window.CustomLeaderConfig is not there: over its table and its own      *)
(* AUTO_INFERRED_PATH_CACHE.                                               *)

\* diplomacyIsImageLeader(leaderID) by the local table
diplomacyIsImageLeader(table, leaderID) ==
    /\ leaderID \notin { "", "RANDOM" }
    /\ leaderID \in DOMAIN table

\* diplomacyTryInferStatePath(leaderID, basePath, state, config): the value
\* returned and the cache it leaves; autoInferPaths === false is tested
\* before the cache is read
diplomacyTryInferStatePath(c, leaderID, basePath, state, config) ==
    IF ~Truthy(basePath) \/ state = "" THEN [cache |-> c, ret |-> Null]
    ELSE IF config.autoInferPaths = False THEN [cache |-> c, ret |-> Null]
    ELSE IF cacheKeyOf(leaderID, state) \in DOMAIN c
        THEN [cache |-> c, ret |-> c[cacheKeyOf(leaderID, state)]]
    ELSE IF state \notin DOMAIN AUTO_PORTRAIT_SUFFIX_TEMPLATES
            \/ Len(AUTO_PORTRAIT_SUFFIX_TEMPLATES[state]) = 0
        THEN [cache |-> c, ret |-> Null]
    ELSE IF basePath.t # "string" THEN [cache |-> c, ret |-> Thrown]
    ELSE IF cannotParse(basePath) THEN [cache |-> c, ret |-> Null]
    ELSE LET inferredPath ==
                 firstCandidate(basePath, AUTO_PORTRAIT_SUFFIX_TEMPLATES[state])
         IN  [cache |-> SetKey(c, cacheKeyOf(leaderID, state), inferredPath),
              ret |-> inferredPath]

\* the for loop of diplomacyGetImagePath over fallbackChain, from its i-th
\* link on
RECURSIVE diplomacyWalkFallbackChain(_, _, _, _, _)
diplomacyWalkFallbackChain(table, c, leaderID, fallbackChain, i) ==
    LET config == table[leaderID]
        basePath == IF Truthy(config.imagePath) THEN config.imagePath ELSE Null
    IN  IF i > Len(fallbackChain) THEN [cache |-> c, ret |-> basePath]
        ELSE IF Truthy(explicitStatePath(config, fallbackChain[i]))
            THEN [cache |-> c, ret |-> explicitStatePath(config, fallbackChain[i])]
        ELSE LET inferred ==
                     diplomacyTryInferStatePath(c, leaderID, basePath,
                                                fallbackChain[i], config)
             IN  IF Truthy(inferred.ret) THEN inferred
                 ELSE diplomacyWalkFallbackChain(table, inferred.cache, leaderID,
                                                 fallbackChain, i + 1)

\* diplomacyGetImagePath(leaderID, state)
diplomacyGetImagePath(table, c, leaderID, state) ==
    IF ~diplomacyIsImageLeader(table, leaderID) THEN [cache |-> c, ret |-> Null]
    ELSE IF state = ""
        THEN [cache |-> c,
              ret |-> IF Truthy(table[leaderID].imagePath)
                      THEN table[leaderID].imagePath ELSE Null]
    ELSE IF state \in ObjectPrototypeKeys THEN [cache |-> c, ret |-> Thrown]
    ELSE diplomacyWalkFallbackChain(table, c, leaderID, fallbackChainOf(state), 1)

---------------------------------------------------------------------------
(* The diplomacy overlays (leader-overlay-image.js).  An element is        *)
(* [id, position, image]: position "left", "right" or "center" stands for  *)
(* its class leader-overlay-image-block-diplomacy-left, -right or          *)
(* leader-overlay-image-block-diplomacy, image is its background image.    *)
(* The container is #world or the body, the same at every call.  A call    *)
(* returns the elements attached and the queue of removal timers it leaves.*)

\* the classes in the order tryRemoveDiplomacyImageOverlay collects them
possibleClassNames == <<"center", "left", "right">>

\* overlayBlocksToRemove: the elements of the position's class when a
\* position other than "center" and a leaderID are given, every diplomacy
\* overlay otherwise
overlayBlocksToRemove(elements, leaderID, position) ==
    IF position # "center" /\ leaderID # ""
    THEN { e \in elements : e.position = position }
    ELSE elements

\* the ids of the collected elements, in the order they were collected
collectedIds(blocks) ==
    LET classes == SelectSeq(possibleClassNames,
                             LAMBDA pos : \E e \in blocks : e.position = pos)
    IN  [ i \in 1..Len(classes) |->
            (CHOOSE e \in blocks : e.position = classes[i]).id ]

\* tryRemoveDiplomacyImageOverlay(leaderID, position): every collected
\* element stays attached and gets a timer that removes it 300 ms later
tryRemoveDiplomacyImageOverlay(elements, queue, leaderID, position) ==
    [ overlays |-> elements,
      timers |-> queue \o collectedIds(overlayBlocksToRemove(elements, leaderID,
                                                             position)) ]

\* the identity of the element document.createElement returns: one that no
\* attached element and no pending timer has
newElementId(elements, queue) ==
    CHOOSE n \in 1..(Cardinality(elements) + Len(queue) + 1) :
        /\ n \notin { e.id : e \in elements } \cup { queue[i] : i \in 1..Len(queue) }
        /\ \A m \in 1..(n - 1) :
               m \in { e.id : e \in elements } \cup { queue[i] : i \in 1..Len(queue) }

\* createOrUpdateImageOverlay(container, {position, className: "leader-
\* overlay-image-block-diplomacy", imageUrl}): the element of the class that
\* container.querySelector finds gets the background image; when there is
\* none, a new element is appended, unless imageUrl is no string
createOrUpdateImageOverlay(elements, queue, position, imageUrl) ==
    IF \E e \in elements : e.position = position
    THEN { IF e.position = position THEN [e EXCEPT !.image = imageUrl] ELSE e :
             e \in elements }
    ELSE IF imageUrl.t # "string" THEN elements
    ELSE elements \cup { [ position |-> position,
                           id |-> newElementId(elements, queue), image |-> imageUrl ] }

\* tryCreateDiplomacyImageOverlay(leaderID, position, delay, state) with
\* window.CustomLeaderConfig in place: the cache getImagePath leaves, the
\* elements and the timers
tryCreateDiplomacyImageOverlay(reg, c, elements, queue, leaderID, position, state) ==
    IF leaderID = "" \/ ~isImageLeader(reg, leaderID)
    THEN [cache |-> c, overlays |-> elements, timers |-> queue]
    ELSE LET r == getImagePath(reg, c, leaderID, state)
             removed == tryRemoveDiplomacyImageOverlay(elements, queue,
                                                       leaderID, position)
         IN  IF r.ret = Thrown \/ ~Truthy(r.ret)
             THEN [cache |-> r.cache, overlays |-> elements, timers |-> queue]
             ELSE [cache |-> r.cache,
                   overlays |-> createOrUpdateImageOverlay(removed.overlays,
                                    removed.timers, position, r.ret),
                   timers |-> removed.timers]

---------------------------------------------------------------------------
(* The overrides of the host's methods.  A method is held by the number of *)
(* wrappers around the host's original: the prototype method               *)
(* LeaderModelManagerClass.prototype.showRightLeaderModel                  *)
(* (diplomacy-config.js), the method of the same name set on the manager   *)
(* instance (diplomacy-sequence-handlers.js), whose innermost wrapper      *)
(* calls the prototype method it was bound to ("bound" wrappers deep),     *)
(* LeaderSelectModelManager.showLeaderModels ("shell") and                 *)
(* LeaderSelectPanel.prototype.swapLeaderInfo; "invoked" is the number of  *)
(* times the original ran in the last call.  The wrapper an installer sets *)
(* carries _isOverridden.                                                  *)

PatchedMethods == { "prototype", "instance", "shell", "swapLeaderInfo" }

\* the host's methods before any installer ran
Unpatched == [ m \in PatchedMethods \cup { "bound", "invoked" } |-> 0 ]

\* the _isOverridden test of a method's installer; instance.showRightLeaderModel
\* is the instance's own method if it has one, the prototype's otherwise
isOverridden(wraps, method) ==
    IF method = "instance" THEN wraps["instance"] >= 1 \/ wraps["prototype"] >= 1
    ELSE wraps[method] >= 1

\* the installer of a method: false and nothing done when the host's class
\* or instance is not there, true and nothing done when the marker is set,
\* otherwise the method is wrapped and the wrapper marked
overrideMethod(wraps, method, hostPresent) ==
    IF ~hostPresent THEN [methods |-> wraps, ret |-> False]
    ELSE IF isOverridden(wraps, method) THEN [methods |-> wraps, ret |-> True]
    ELSE IF method = "instance"
        THEN [methods |-> [wraps EXCEPT !["instance"] = @ + 1,
                                        !["bound"] = wraps["prototype"]],
              ret |-> True]
    ELSE [methods |-> [wraps EXCEPT ![method] = @ + 1], ret |-> True]

\* a call's outcome: how often the host's original ran, whether an exception
\* left the call, and how often the image display was asked for
originalMethod(originalThrows) ==
    [ thrown |-> originalThrows, invoked |-> 1, displays |-> 0 ]
NoOriginal == [ thrown |-> FALSE, invoked |-> 0, displays |-> 0 ]
ImageDisplay == [ thrown |-> FALSE, invoked |-> 0, displays |-> 1 ]

\* the prototype method under depth wrappers of diplomacy-config.js: for an
\* image leader handleImageLeaderDisplay and return; otherwise the wrapped
\* method, and in the catch block the wrapped method once more
RECURSIVE showRightLeaderModel(_, _, _)
showRightLeaderModel(depth, isImg, originalThrows) ==
    IF depth = 0 THEN originalMethod(originalThrows)
    ELSE IF isImg THEN ImageDisplay
    ELSE LET first == showRightLeaderModel(depth - 1, isImg, originalThrows)
             fallback == showRightLeaderModel(depth - 1, isImg, originalThrows)
         IN  IF ~first.thrown THEN first
             ELSE [ thrown |-> FALSE,
                    invoked |-> first.invoked + fallback.invoked,
                    displays |-> first.displays + fallback.displays ]

\* the instance's method under depth wrappers of
\* diplomacy-sequence-handlers.js: the bound method for another leader, the
\* banner without the 3D model and the delayed image display for an image
\* leader
RECURSIVE instanceShowRightLeaderModel(_, _, _, _)
instanceShowRightLeaderModel(depth, bound, isImg, originalThrows) ==
    IF depth = 0 THEN showRightLeaderModel(bound, isImg, originalThrows)
    ELSE IF isImg THEN ImageDisplay
    ELSE instanceShowRightLeaderModel(depth - 1, bound, isImg, originalThrows)

\* LeaderSelectModelManager.showLeaderModels under depth wrappers: for an
\* image leader the models are cleared and none is loaded
RECURSIVE showLeaderModels(_, _, _)
showLeaderModels(depth, isImg, originalThrows) ==
    IF depth = 0 THEN originalMethod(originalThrows)
    ELSE IF isImg THEN NoOriginal
    ELSE showLeaderModels(depth - 1, isImg, originalThrows)

\* swapLeaderInfo under depth wrappers: the wrapped method first, for every
\* leader
RECURSIVE swapLeaderInfo(_, _)
swapLeaderInfo(depth, originalThrows) ==
    IF depth = 0 THEN originalMethod(originalThrows)
    ELSE swapLeaderInfo(depth - 1, originalThrows)

\* one call of a method as the host makes it
callMethod(wraps, method, isImg, originalThrows) ==
    CASE method = "prototype" ->
             showRightLeaderModel(wraps["prototype"], isImg, originalThrows)
      [] method = "instance" ->
             IF wraps["instance"] >= 1
             THEN instanceShowRightLeaderModel(wraps["instance"], wraps["bound"],
                                               isImg, originalThrows)
             ELSE showRightLeaderModel(wraps["prototype"], isImg, originalThrows)
      [] method = "shell" -> showLeaderModels(wraps["shell"], isImg, originalThrows)
      [] OTHER -> swapLeaderInfo(wraps["swapLeaderInfo"], originalThrows)

---------------------------------------------------------------------------
(* The waits on a module of this mod and the retries of the image display  *)

AllModules == { "CustomLeaderConfig", "LeaderOverlayImage" }

\* waitForConfig: const maxAttempts = 50
maxAttempts == 50
\* attemptCreateOverlay: const maxRetries = 10
maxRetries == 10

\* no waitForConfig() call made yet
NotWaiting == [ status |-> "idle", module |-> "", attempts |-> 0, interval |-> FALSE ]

\* waitForConfig() up to the return of the promise: resolved at once when
\* the module is there, an interval of 100 ms set otherwise
waitForConfig(mods, module) ==
    IF module \in mods
    THEN [ status |-> "resolved", module |-> module, attempts |-> 0, interval |-> FALSE ]
    ELSE [ status |-> "waiting", module |-> module, attempts |-> 0, interval |-> TRUE ]

\* one run of the interval's callback
checkInterval(mods, w) ==
    IF w.module \in mods \/ w.attempts + 1 >= maxAttempts
    THEN [ w EXCEPT !.attempts = @ + 1, !.interval = FALSE, !.status = "resolved" ]
    ELSE [ w EXCEPT !.attempts = @ + 1 ]

\* no handleImageLeaderDisplay() call made yet
NotDisplaying ==
    [ state |-> "", id |-> "", status |-> "idle", retryCount |-> 0, created |-> 0 ]

\* the attempts, were there no last one
attemptCreateOverlay_RetriesForever(mods, d, retryCount) ==
    IF "LeaderOverlayImage" \in mods
    THEN [ d EXCEPT !.status = "scheduled", !.retryCount = retryCount ]
    ELSE [ d EXCEPT !.status = "polling", !.retryCount = retryCount ]

\* attemptCreateOverlay(retryCount): the creation is set on a timer when
\* LeaderOverlayImage is there, the next attempt 200 ms later while
\* retryCount < maxRetries, nothing after that
attemptCreateOverlay(mods, d, retryCount) ==
    IF "LeaderOverlayImage" \in mods
    THEN [ d EXCEPT !.status = "scheduled", !.retryCount = retryCount ]
    ELSE IF retryCount < maxRetries
        THEN [ d EXCEPT !.status = "polling", !.retryCount = retryCount ]
    ELSE [ d EXCEPT !.status = "gaveUp", !.retryCount = retryCount ]

\* handleImageLeaderDisplay(leaderID, "right", context, state) up to its
\* return: false for a leader that is no image leader; otherwise the old
\* overlay of the side is removed if LeaderOverlayImage is there, and the
\* first attempt to create the overlay is made
handleImageLeaderDisplay(reg, mods, elements, queue, leaderID, state) ==
    IF leaderID = "" \/ ~isImageLeader(reg, leaderID)
    THEN [ overlays |-> elements, timers |-> queue, display |-> NotDisplaying,
           ret |-> False ]
    ELSE LET removed ==
                 IF "LeaderOverlayImage" \in mods
                 THEN tryRemoveDiplomacyImageOverlay(elements, queue, leaderID, "right")
                 ELSE [ overlays |-> elements, timers |-> queue ]
         IN  [ overlays |-> removed.overlays, timers |-> removed.timers, display |-> attemptCreateOverlay(mods,
                               [ NotDisplaying EXCEPT !.id = leaderID, !.state = state ],
                               0),
               ret |-> True ]

\* the state the creation timer asks for: the one given, neutral when none
\* was given and the context names no sequence
finalStateOf(state) == IF state = "" THEN "neutral" ELSE state

---------------------------------------------------------------------------
(* The calls the model makes *)

\* a diplomacyStates object has at most this many keys
MaxStateKeys == 2

\* "LEADER_A" with the query state "B_hostile" and "LEADER_A_B" with the
\* state "hostile" have the same `${leaderID}_${state}`
LeaderIds == { "LEADER_A", "LEADER_A_B" }
InvalidIds == { "", "RANDOM" }

\* "" stands for a call without state; "B_hostile" is no recognised state
QueryStates == { "", "neutral", "hostile", "declaring_war", "B_hostile" }

WellFormedPath == <<"fs:", "/", "/", "x", "/", "leader", ".", "png">>
MalformedPath == <<"x", ".", "d", "/", "leader">>
GoodImagePaths == { Str(WellFormedPath), Str(MalformedPath) }
BadImagePaths == { Undefined, Str(<<>>), Num(<<"7">>) }

\* the portrait a mod configures for stateKey
ExplicitPath(stateKey) == <<"fs:", "/", "/", "x", "/", stateKey, ".", "png">>

StateKeyInputs == { "declaring_war", "hostile", "neutral", "B_hostile" }
StateValueInputs(stateKey) ==
    { Str(ExplicitPath(stateKey)), Str(<<>>), Num(<<"7">>) }

\* the objects with at most MaxStateKeys keys, each with one of its values
StateMaps ==
    UNION { { f \in [keys -> UNION { StateValueInputs(k) : k \in keys }] :
                \A k \in keys : f[k] \in StateValueInputs(k) } :
            keys \in { K \in SUBSET StateKeyInputs :
                         Cardinality(K) <= MaxStateKeys } }

DiplomacyStatesInputs ==
    { NoContainer, BadContainer } \cup { Container(map) : map \in StateMaps }

\* those of them whose every value is a portrait path
ValidDiplomacyStates ==
    { NoContainer } \cup
    { Container(map) : map \in
        { f \in StateMaps : f # EmptyMap
            /\ \A k \in DOMAIN f : f[k] = Str(ExplicitPath(k)) } }

Panel(widthMultiplier, leftOffsetMultiplier) ==
    [ kind |-> "object", widthMultiplier |-> widthMultiplier,
      leftOffsetMultiplier |-> leftOffsetMultiplier,
      topOffsetMultiplier |-> Undefined, position |-> Undefined ]
NoPanel ==
    [ kind |-> "other", widthMultiplier |-> Undefined,
      leftOffsetMultiplier |-> Undefined,
      topOffsetMultiplier |-> Undefined, position |-> Undefined ]

DisplayOverridesInputs ==
    { BadContainer,
      Container("setup-panels" :> Panel(Num(<<"2">>), Undefined)),
      Container("setup-panels" :> Panel(NaN, Num(<<"2">>))),
      Container("setup-panels" :> NoPanel),
      Container("minimap" :> Panel(NaN, Undefined)) }

NoObject == ConfigObject(Undefined, Undefined, NoContainer, NoContainer)
StringConfig(str) == [kind |-> "string", str |-> str, obj |-> NoObject]
ObjectConfig(obj) == [kind |-> "object", str |-> Undefined, obj |-> obj]
OtherConfig == [kind |-> "other", str |-> Undefined, obj |-> NoObject]
NoConfig == [kind |-> "none", str |-> Undefined, obj |-> NoObject]

\* the calls of the resolver's specification: LEADER_A registers every
\* choice of explicit portraits with a well-formed base path (inference on
\* or off) and with a malformed one, the other ids the string shorthand
ResolverConfigs(leaderID) ==
    IF leaderID = "LEADER_A"
    THEN { ObjectConfig(ConfigObject(pa[1], pa[2], ds, NoContainer)) :
             pa \in { <<Str(WellFormedPath), Undefined>>,
                      <<Str(WellFormedPath), False>>,
                      <<Str(MalformedPath), Undefined>> },
             ds \in ValidDiplomacyStates }
    ELSE { StringConfig(Str(WellFormedPath)) }

\* the calls of the registration's specification: for LEADER_A string
\* shorthands, non-objects, objects without a usable imagePath, objects with
\* every diplomacyStates value and objects with display overrides
RegistrationConfigs(leaderID) ==
    IF leaderID # "LEADER_A"
    THEN { StringConfig(Str(WellFormedPath)),
           ObjectConfig(ConfigObject(Str(WellFormedPath), Undefined,
                                     NoContainer, NoContainer)) }
    ELSE
    { StringConfig(p) : p \in GoodImagePaths \cup { Str(<<>>) } }
    \cup { OtherConfig }
    \cup { ObjectConfig(ConfigObject(p, Undefined, NoContainer, NoContainer)) :
             p \in BadImagePaths }
    \cup { ObjectConfig(ConfigObject(Str(WellFormedPath), Undefined, ds, NoContainer)) :
             ds \in DiplomacyStatesInputs }
    \cup { ObjectConfig(ConfigObject(Str(WellFormedPath), False,
                                     NoContainer, NoContainer)) }
    \cup { ObjectConfig(ConfigObject(Str(WellFormedPath), Undefined, NoContainer, do)) :
             do \in DisplayOverridesInputs }

---------------------------------------------------------------------------
(* The state machine *)

\* the other contexts: each runs its own copy of this module on the same store
PeerIds == { "P1", "P2" }
NotStarted == [registry |-> EmptyMap, started |-> FALSE]

\* the game scope before diplomacy-config.js has run
NotLoaded == [cache |-> EmptyMap, table |-> EmptyMap, loaded |-> FALSE]

\* last: the call, its arguments, the value it returned and, for a
\* registration, whether it put a different entry in the place of an old one
\* (in another context: whether it removed a leader from the store; for a
\* load: whether the store held another entry for a leader of the table).
\* state is the state or surface asked for and, for a call in or of another
\* context, that context or the window it starts in
NoCall ==
    [ state |-> "", ret |-> Undefined, config |-> NoConfig, id |-> "",
      op |-> "none", replaced |-> FALSE ]

\* the state the module's initialisation leaves on a fresh store (lines 531-569)
Init ==
    /\ registry = EmptyMap
    /\ cache = EmptyMap
    /\ store = persistSharedRegistry(EmptyMap)
    /\ last = NoCall
    /\ files = {}
    /\ storage = "working"
    /\ peers = [p \in PeerIds |-> NotStarted]
    /\ game = NotLoaded
    /\ overlays = {}
    /\ timers = <<>>
    /\ methods = Unpatched
    /\ modules = AllModules
    /\ waiting = NotWaiting
    /\ display = NotDisplaying

Register(leaderID, config) ==
    LET r == registerImageLeader(registry, leaderID, config)
        p == IF r.ret THEN persistOutcome(storage, store, r.registry)
             ELSE [store |-> store, thrown |-> FALSE]
    IN  /\ registry' = r.registry
        /\ store' = p.store
        /\ cache' = cache
        /\ last' = [state |-> "",
                    ret |-> IF p.thrown THEN Thrown ELSE Bool(r.ret),
                    config |-> config,
                    id |-> leaderID, op |-> "registerImageLeader",
                    replaced |-> /\ r.ret /\ leaderID \in DOMAIN registry
                                 /\ registry[leaderID] # r.registry[leaderID]]
        /\ UNCHANGED <<files, storage, peers, game, overlays, timers,
                 methods, modules, waiting, display>>

Query(leaderID, state) ==
    LET r == getImagePath(registry, cache, leaderID, state)
    IN  /\ cache' = r.cache
        /\ last' = [state |-> state, ret |-> r.ret, config |-> NoConfig,
                    id |-> leaderID, op |-> "getImagePath", replaced |-> FALSE]
        /\ UNCHANGED <<registry, store, files, storage, peers, game, overlays, timers,
                 methods, modules, waiting, display>>

Next ==
    \/ \E leaderID \in LeaderIds \cup InvalidIds :
           \E config \in ResolverConfigs(leaderID) : Register(leaderID, config)
    \/ \E leaderID \in LeaderIds, state \in QueryStates : Query(leaderID, state)

Spec == Init /\ [][Next]_vars

NextRegistration ==
    \/ \E leaderID \in { "LEADER_A" } \cup InvalidIds :
           \E config \in RegistrationConfigs(leaderID) : Register(leaderID, config)
    \/ \E state \in QueryStates : Query("LEADER_A", state)

SpecRegistration == Init /\ [][NextRegistration]_vars

---------------------------------------------------------------------------
(* Inference over two base paths and a file system *)

OtherWellFormedPath == <<"fs:", "/", "/", "x", "/", "other", ".", "png">>

\* the file systems a mod may ship next to "fs://x/leader.png": any of the
\* _angry and _hostile variants
FileSystems ==
    SUBSET { candidatePaths(Str(WellFormedPath), <<"_angry", "_hostile">>)[i] :
               i \in 1..2 }

\* the calls of the inference's specification: the shorthand with either
\* base path, and an entry with an explicit hostile portrait
InferenceConfigs ==
    { StringConfig(Str(WellFormedPath)), StringConfig(Str(OtherWellFormedPath)),
      ObjectConfig(ConfigObject(Str(WellFormedPath), Undefined,
                                Container("hostile" :> Str(ExplicitPath("hostile"))),
                                NoContainer)) }

InferenceStates == { "", "hostile", "declaring_war" }

InitInference ==
    /\ registry = EmptyMap
    /\ cache = EmptyMap
    /\ store = persistSharedRegistry(EmptyMap)
    /\ last = NoCall
    /\ files \in FileSystems
    /\ storage = "working"
    /\ peers = [p \in PeerIds |-> NotStarted]
    /\ game = NotLoaded
    /\ overlays = {}
    /\ timers = <<>>
    /\ methods = Unpatched
    /\ modules = AllModules
    /\ waiting = NotWaiting
    /\ display = NotDisplaying

NextInference ==
    \/ \E config \in InferenceConfigs : Register("LEADER_A", config)
    \/ \E state \in InferenceStates : Query("LEADER_A", state)

SpecInference == InitInference /\ [][NextInference]_vars

---------------------------------------------------------------------------
(* Display configuration and the ids that are no image leaders *)

\* the surfaces asked for: a default one, the three aliases, the aliased
\* one, a diplomacy one, one the module does not know and one that is a
\* property name every object inherits
SurfaceNames ==
    { "leader-select", "age-select", "civ-select", "game-setup", "setup-panels",
      "diplomacy-left", "minimap", "constructor" }

\* an override of the vertical offset and of the position alone
OffsetAndPosition ==
    [ kind |-> "object", widthMultiplier |-> Undefined,
      leftOffsetMultiplier |-> Undefined,
      topOffsetMultiplier |-> Num(<<"0">>), position |-> Str(<<"right">>) ]

\* the calls of the display's specification: LEADER_A with each display
\* override and with none; LEADER_A_B is never registered
DisplayConfigs ==
    { StringConfig(Str(WellFormedPath)) } \cup
    { ObjectConfig(ConfigObject(Str(WellFormedPath), Undefined, NoContainer, do)) :
        do \in DisplayOverridesInputs
                  \cup { Container("diplomacy-left" :> OffsetAndPosition) } }

QueryDisplay(leaderID, panelType) ==
    /\ last' = [state |-> panelType,
                ret |-> getImageDisplayConfig(registry, leaderID, panelType),
                config |-> NoConfig,
                id |-> leaderID, op |-> "getImageDisplayConfig",
                replaced |-> FALSE]
    /\ UNCHANGED <<registry, cache, store, files, storage, peers, game, overlays, timers,
                 methods, modules, waiting, display>>

NextDisplay ==
    \/ \E config \in DisplayConfigs : Register("LEADER_A", config)
    \/ \E leaderID \in LeaderIds \cup InvalidIds :
           \E state \in { "", "hostile" } : Query(leaderID, state)
    \/ \E leaderID \in LeaderIds \cup InvalidIds :
           \E panelType \in SurfaceNames : QueryDisplay(leaderID, panelType)

SpecDisplay == Init /\ [][NextDisplay]_vars

---------------------------------------------------------------------------
(* Several contexts on one store *)

\* whether the item holds, for a leader of local, another entry than local's
storeDiffersFrom(item, local) ==
    /\ item.present
    /\ \E leaderID \in (DOMAIN local) \cap (DOMAIN item.json) :
           JSON_parse(item.json)[leaderID] # local[leaderID]

\* the registrations made in the observed context and in the other contexts
MainCalls ==
    { <<"LEADER_A", StringConfig(Str(WellFormedPath))>>,
      <<"LEADER_A_B", StringConfig(Str(WellFormedPath))>> }
PeerCalls ==
    { <<"LEADER_A", StringConfig(Str(OtherWellFormedPath))>>,
      <<"LEADER_YUNI", StringConfig(Str(OtherWellFormedPath))>> }

\* a context starts in a window of its own ("") or in the window of the
\* observed context ("window"), whose window.CustomLeaderConfig it then finds
Windows == { "", "window" }
existingLeadersOf(window) == IF window = "window" THEN registry ELSE EmptyMap

\* the module initialisation of context p (lines 531-569)
PeerStartup(p, window) ==
    /\ ~peers[p].started
    /\ LET existingLeaders == existingLeadersOf(window)
           reg == startupRegistry(existingLeaders, storage, store)
           o == persistOutcome(storage, store, reg)
       IN  /\ peers' = [peers EXCEPT ![p] = [registry |-> reg, started |-> TRUE]]
           /\ store' = o.store
           /\ last' = [state |-> window,
                       ret |-> IF o.thrown THEN Thrown ELSE Undefined,
                       config |-> NoConfig,
                       id |-> p, op |-> "peerStartup",
                       replaced |-> storeDiffersFrom(store, existingLeaders)]
    /\ UNCHANGED <<registry, cache, files, storage, game, overlays, timers,
                 methods, modules, waiting, display>>

\* registerImageLeader(leaderID, config) called in context p
PeerRegister(p, leaderID, config) ==
    /\ peers[p].started
    /\ LET r == registerImageLeader(peers[p].registry, leaderID, config)
           o == IF r.ret THEN persistOutcome(storage, store, r.registry)
                ELSE [store |-> store, thrown |-> FALSE]
       IN  /\ peers' = [peers EXCEPT ![p].registry = r.registry]
           /\ store' = o.store
           /\ last' = [state |-> p,
                       ret |-> IF o.thrown THEN Thrown ELSE Bool(r.ret),
                       config |-> config,
                       id |-> leaderID, op |-> "peerRegister",
                       replaced |-> /\ r.ret /\ store.present
                                    /\ ~(DOMAIN store.json \subseteq DOMAIN r.registry)]
    /\ UNCHANGED <<registry, cache, files, storage, game, overlays, timers,
                 methods, modules, waiting, display>>

\* diplomacy-config.js runs in the game scope (line 84)
GameLoad(window) ==
    /\ ~game.loaded
    /\ game' = [cache |-> game.cache,
                table |-> loadSharedRegistryIntoLocal(storage, store,
                              DIPLOMACY_TEST_IMAGE_LEADERS,
                              existingLeadersOf(window)), loaded |-> TRUE]
    /\ last' = [state |-> window, ret |-> Undefined, config |-> NoConfig,
                id |-> "game", op |-> "gameLoad",
                replaced |-> storeDiffersFrom(store, DIPLOMACY_TEST_IMAGE_LEADERS)]
    /\ UNCHANGED <<registry, cache, store, files, storage, peers, overlays, timers,
                 methods, modules, waiting, display>>

NextContexts ==
    \/ \E call \in MainCalls : Register(call[1], call[2])
    \/ \E p \in PeerIds, window \in Windows : PeerStartup(p, window)
    \/ \E p \in PeerIds, call \in PeerCalls : PeerRegister(p, call[1], call[2])
    \/ \E window \in Windows : GameLoad(window)

SpecContexts == Init /\ [][NextContexts]_vars

---------------------------------------------------------------------------
(* A localStorage that works, is undefined, or throws on every access *)

StorageModes == { "working", "unavailable", "throws" }

\* the state the module's initialisation leaves on a fresh store, for each
\* behaviour of localStorage
InitStorage ==
    /\ registry = EmptyMap
    /\ cache = EmptyMap
    /\ storage \in StorageModes
    /\ store = persistOutcome(storage, NoItem, EmptyMap).store
    /\ last = NoCall
    /\ files = {}
    /\ peers = [p \in PeerIds |-> NotStarted]
    /\ game = NotLoaded
    /\ overlays = {}
    /\ timers = <<>>
    /\ methods = Unpatched
    /\ modules = AllModules
    /\ waiting = NotWaiting
    /\ display = NotDisplaying

NextStorage ==
    \/ \E config \in DisplayConfigs : Register("LEADER_A", config)
    \/ \E state \in { "", "hostile" } : Query("LEADER_A", state)
    \/ \E panelType \in { "leader-select", "setup-panels" } :
           QueryDisplay("LEADER_A", panelType)
    \/ \E window \in Windows : PeerStartup("P1", window)

SpecStorage == InitStorage /\ [][NextStorage]_vars

---------------------------------------------------------------------------
(* The relationship classifier *)

\* a relationship's text has at most this many tokens
MaxSignalLen == 3

SignalTokens == { "PLAYER_RELATIONSHIP_", "UN", "FRIENDLY", "HOSTILE", "HELPFUL" }

\* the relationships passed: null, undefined, numbers of the enumeration and
\* every text of at most MaxSignalLen tokens
Signals ==
    { Null, Undefined, Num(<<"0">>), Num(<<"7">>) } \cup
    { Str(tokens) : tokens \in UNION { [1..n -> SignalTokens] : n \in 0..MaxSignalLen } }

\* the signal is recorded as the call's config, isAtWar as its flag
SignalConfig(signal) == [kind |-> "signal", str |-> signal, obj |-> NoObject]

Classify(relationshipEnum, isAtWar) ==
    /\ last' = [state |-> "",
                ret |-> Str(<<getDiplomacyInitialState(relationshipEnum, isAtWar)>>),
                config |-> SignalConfig(relationshipEnum),
                id |-> "", op |-> "getDiplomacyInitialState",
                replaced |-> isAtWar]
    /\ UNCHANGED <<registry, cache, store, files, storage, peers, game, overlays, timers,
                 methods, modules, waiting, display>>

NextClassifier ==
    \E relationshipEnum \in Signals, isAtWar \in BOOLEAN :
        Classify(relationshipEnum, isAtWar)

SpecClassifier == Init /\ [][NextClassifier]_vars

---------------------------------------------------------------------------
(* Every exported resolver on every kind of input, over a store that holds *)
(* what another writer left under the key                                  *)

\* an entry as JSON.parse returns it: nothing checks its fields
ForeignEntries ==
    { jsonConfig(ShorthandObject(Str(WellFormedPath))),
      ConfigObject(Num(<<"7">>), Undefined, NoContainer, NoContainer),
      ConfigObject(Undefined, Undefined, NoContainer, NoContainer),
      ConfigObject(Str(WellFormedPath), Undefined, BadContainer, BadContainer) }

\* the items the module's initialisation may find: none, or an object with
\* one entry
ForeignItems ==
    { NoItem } \cup
    { [present |-> TRUE, json |-> ("LEADER_A_B" :> entry)] : entry \in ForeignEntries }

\* the state the module's initialisation leaves on such a store (lines 531-569)
InitTotality ==
    /\ \E item \in ForeignItems :
          /\ registry = startupRegistry(EmptyMap, "working", item)
          /\ store = persistOutcome("working", item, registry).store
    /\ cache = EmptyMap
    /\ last = NoCall
    /\ files = {}
    /\ storage = "working"
    /\ peers = [p \in PeerIds |-> NotStarted]
    /\ game = NotLoaded
    /\ overlays = {}
    /\ timers = <<>>
    /\ methods = Unpatched
    /\ modules = AllModules
    /\ waiting = NotWaiting
    /\ display = NotDisplaying

\* the states asked for: none, recognised ones, unrecognised ones
TotalityStates == { "", "hostile", "neutral", "B_hostile", "constructor" }

QueryIsImageLeader(leaderID) ==
    /\ last' = [state |-> "", ret |-> Bool(isImageLeader(registry, leaderID)),
                config |-> NoConfig, id |-> leaderID, op |-> "isImageLeader",
                replaced |-> FALSE]
    /\ UNCHANGED <<registry, cache, store, files, storage, peers, game, overlays, timers,
                 methods, modules, waiting, display>>

NextTotality ==
    \/ Register("LEADER_A", StringConfig(Str(WellFormedPath)))
    \/ \E leaderID \in LeaderIds \cup InvalidIds : QueryIsImageLeader(leaderID)
    \/ \E leaderID \in LeaderIds \cup InvalidIds :
           \E state \in TotalityStates : Query(leaderID, state)
    \/ \E leaderID \in LeaderIds \cup InvalidIds :
           \E panelType \in { "leader-select", "civ-select", "minimap", "constructor" } :
               QueryDisplay(leaderID, panelType)
    \/ \E relationshipEnum \in { Null, Num(<<"7">>), Str(<<"UN", "FRIENDLY">>) } :
           \E isAtWar \in BOOLEAN : Classify(relationshipEnum, isAtWar)

SpecTotality == InitTotality /\ [][NextTotality]_vars

---------------------------------------------------------------------------
(* Every operation that reads or writes a registry, in two contexts *)

\* the registrations made: two that succeed, one rejected for its empty
\* path, one rejected for its diplomacyStates
FrameConfigs ==
    { StringConfig(Str(WellFormedPath)), StringConfig(Str(OtherWellFormedPath)),
      StringConfig(Str(<<>>)),
      ObjectConfig(ConfigObject(Str(WellFormedPath), Undefined,
                                BadContainer, NoContainer)) }

NextFrame ==
    \/ \E leaderID \in LeaderIds \cup { "RANDOM" } :
           \E config \in FrameConfigs : Register(leaderID, config)
    \/ \E leaderID \in LeaderIds :
           \E state \in { "", "hostile" } : Query(leaderID, state)
    \/ \E leaderID \in LeaderIds : QueryDisplay(leaderID, "civ-select")
    \/ \E leaderID \in LeaderIds : QueryIsImageLeader(leaderID)
    \/ \E window \in Windows : PeerStartup("P1", window)
    \/ \E call \in PeerCalls : PeerRegister("P1", call[1], call[2])

SpecFrame == Init /\ [][NextFrame]_vars

---------------------------------------------------------------------------
(* The diplomacy overlays of one registered leader *)

\* at most this many removal timers are pending
MaxTimers == 2

OverlayPositions == { "left", "right", "center" }

\* tryCreateDiplomacyImageOverlay(leaderID, position, 0, state)
CreateOverlay(leaderID, position, state) ==
    LET r == tryCreateDiplomacyImageOverlay(registry, cache, overlays, timers,
                                            leaderID, position, state)
    IN  /\ Len(r.timers) <= MaxTimers
        /\ cache' = r.cache
        /\ overlays' = r.overlays
        /\ timers' = r.timers
        /\ last' = [state |-> position, ret |-> Undefined, config |-> NoConfig,
                    id |-> leaderID, op |-> "tryCreateDiplomacyImageOverlay",
                    replaced |-> FALSE]
        /\ UNCHANGED <<registry, store, files, storage, peers, game,
                 methods, modules, waiting, display>>

\* tryRemoveDiplomacyImageOverlay(leaderID, position, 0)
RemoveOverlay(leaderID, position) ==
    LET r == tryRemoveDiplomacyImageOverlay(overlays, timers, leaderID, position)
    IN  /\ Len(r.timers) <= MaxTimers
        /\ overlays' = r.overlays
        /\ timers' = r.timers
        /\ last' = [state |-> position, ret |-> Undefined, config |-> NoConfig,
                    id |-> leaderID, op |-> "tryRemoveDiplomacyImageOverlay",
                    replaced |-> FALSE]
        /\ UNCHANGED <<registry, cache, store, files, storage, peers, game,
                 methods, modules, waiting, display>>

\* immediatelyRemoveImageOverlay(position) of diplomacy-sequence-handlers.js,
\* with window.LeaderOverlayImage in place:
\* tryRemoveDiplomacyImageOverlay(null, position, 0)
ImmediatelyRemove(position) ==
    LET r == tryRemoveDiplomacyImageOverlay(overlays, timers, "", position)
    IN  /\ Len(r.timers) <= MaxTimers
        /\ overlays' = r.overlays
        /\ timers' = r.timers
        /\ last' = [state |-> position, ret |-> Undefined, config |-> NoConfig,
                    id |-> "", op |-> "immediatelyRemoveImageOverlay",
                    replaced |-> FALSE]
        /\ UNCHANGED <<registry, cache, store, files, storage, peers, game,
                 methods, modules, waiting, display>>

\* the oldest removal timer fires: if (overlayBlock.parentNode) overlayBlock.remove()
TimerFires ==
    /\ timers # <<>>
    /\ overlays' = { e \in overlays : e.id # Head(timers) }
    /\ timers' = Tail(timers)
    /\ UNCHANGED <<registry, cache, store, last, files, storage, peers, game,
                 methods, modules, waiting, display>>

NextOverlay ==
    \/ Register("LEADER_A", StringConfig(Str(WellFormedPath)))
    \/ \E leaderID \in LeaderIds, position \in OverlayPositions :
           \E state \in { "", "hostile" } : CreateOverlay(leaderID, position, state)
    \/ \E position \in OverlayPositions : RemoveOverlay("LEADER_A", position)
    \/ \E position \in OverlayPositions : ImmediatelyRemove(position)
    \/ TimerFires

SpecOverlay == Init /\ [][NextOverlay]_vars

---------------------------------------------------------------------------
(* The shell's resolver and the game scope's, asked the same *)

\* LEADER_A with inference on and off, the other leaders by the shorthand;
\* LEADER_YUNI as the game scope's table holds it from the start
GameScopeCalls ==
    { <<"LEADER_A", StringConfig(Str(WellFormedPath))>>,
      <<"LEADER_A", ObjectConfig(ConfigObject(Str(WellFormedPath), False,
                                              NoContainer, NoContainer))>>,
      <<"LEADER_A_B", StringConfig(Str(WellFormedPath))>>,
      <<"LEADER_YUNI",
        StringConfig(DIPLOMACY_TEST_IMAGE_LEADERS["LEADER_YUNI"].imagePath)>> }

GameScopeIds == LeaderIds \cup { "LEADER_YUNI" }
GameScopeStates == { "", "hostile", "B_hostile" }

\* diplomacyGetImagePath(leaderID, state) in the game scope, loaded in a
\* window without window.CustomLeaderConfig
GameQuery(leaderID, state) ==
    LET r == diplomacyGetImagePath(game.table, game.cache, leaderID, state)
    IN  /\ game.loaded
        /\ game' = [game EXCEPT !.cache = r.cache]
        /\ last' = [state |-> state, ret |-> r.ret, config |-> NoConfig,
                    id |-> leaderID, op |-> "diplomacyGetImagePath",
                    replaced |-> FALSE]
        /\ UNCHANGED <<registry, cache, store, files, storage, peers, overlays, timers,
                 methods, modules, waiting, display>>

NextGameScope ==
    \/ \E call \in GameScopeCalls : Register(call[1], call[2])
    \/ \E leaderID \in GameScopeIds, state \in GameScopeStates :
           Query(leaderID, state)
    \/ GameLoad("")
    \/ \E leaderID \in GameScopeIds, state \in GameScopeStates :
           GameQuery(leaderID, state)

SpecGameScope == Init /\ [][NextGameScope]_vars

---------------------------------------------------------------------------
(* The patched methods of the host, installed and called *)

\* whether a handleImageLeaderDisplay() call is between its start and the
\* end of its retries
DisplayInFlight == display.status \in { "delayed", "polling", "scheduled" }

\* an installer runs: overrideShowRightLeaderModel() of diplomacy-config.js
\* ("prototype"), overrideShowRightLeaderModel(instance, classRef) of
\* diplomacy-sequence-handlers.js ("instance"), overrideShowLeaderModels()
\* ("shell"), overrideSwapLeaderInfo()
InstallOverride(method, hostPresent) ==
    LET r == overrideMethod(methods, method, hostPresent)
    IN  /\ methods' = r.methods
        /\ last' = [state |-> "", ret |-> r.ret, config |-> NoConfig,
                    id |-> method, op |-> "overrideMethod",
                    replaced |-> hostPresent /\ isOverridden(methods, method)]
        /\ UNCHANGED <<registry, cache, store, files, storage, peers, game,
                       overlays, timers, modules, waiting, display>>

\* the host calls a method for a leader.  The instance's wrapper removes the
\* image overlays before it calls on for another leader
\* (immediatelyRemoveImageOverlay("right") when a right or centre overlay is
\* attached) and sets a timer of 300 ms for the image display of an image
\* leader, with the state it reads from the relationship; the prototype's
\* wrapper calls handleImageLeaderDisplay at once
CallMethod(method, leaderID, originalThrows, state) ==
    LET isImg == isImageLeader(registry, leaderID)
        outcome == callMethod(methods, method, isImg, originalThrows)
        byInstance == method = "instance" /\ methods["instance"] >= 1
        cleaned ==
            IF byInstance /\ ~isImg /\ "LeaderOverlayImage" \in modules
               /\ \E e \in overlays : e.position \in { "right", "center" }
            THEN tryRemoveDiplomacyImageOverlay(overlays, timers, "", "right")
            ELSE [overlays |-> overlays, timers |-> timers]
        shown == handleImageLeaderDisplay(registry, modules, overlays, timers,
                                          leaderID, "")
    IN  /\ outcome.displays >= 1 => ~DisplayInFlight
        /\ byInstance \/ state = "neutral"
        /\ methods' = [methods EXCEPT !["invoked"] = outcome.invoked]
        /\ IF outcome.displays = 0
           THEN /\ overlays' = cleaned.overlays
                /\ timers' = cleaned.timers
                /\ display' = display
           ELSE IF byInstance
           THEN /\ display' = [NotDisplaying EXCEPT !.status = "delayed",
                                                    !.id = leaderID, !.state = state]
                /\ UNCHANGED <<overlays, timers>>
           ELSE /\ overlays' = shown.overlays
                /\ timers' = shown.timers
                /\ display' = shown.display
        /\ Len(timers') <= MaxTimers
        /\ last' = [state |-> method,
                    ret |-> IF outcome.thrown THEN Thrown ELSE Undefined,
                    config |-> NoConfig, id |-> leaderID, op |-> "callMethod",
                    replaced |-> originalThrows]
        /\ UNCHANGED <<registry, cache, store, files, storage, peers, game,
                       modules, waiting>>

\* the timer of the instance's wrapper fires:
\* safeHandleImageLeaderDisplay(leaderID, "right", this, inferredState, true)
DelayFires ==
    LET shown == handleImageLeaderDisplay(registry, modules, overlays, timers,
                                          display.id, display.state)
    IN  /\ display.status = "delayed"
        /\ Len(shown.timers) <= MaxTimers
        /\ overlays' = shown.overlays
        /\ timers' = shown.timers
        /\ display' = shown.display
        /\ UNCHANGED <<registry, cache, store, last, files, storage, peers, game,
                       methods, modules, waiting>>

\* the creation timer of attemptCreateOverlay fires:
\* tryCreateDiplomacyImageOverlay(leaderID, position, 0, finalState)
CreationFires ==
    LET r == tryCreateDiplomacyImageOverlay(registry, cache, overlays, timers,
                 display.id, "right", finalStateOf(display.state))
    IN  /\ display.status = "scheduled"
        /\ Len(r.timers) <= MaxTimers
        /\ cache' = r.cache
        /\ overlays' = r.overlays
        /\ timers' = r.timers
        /\ display' = [display EXCEPT !.status = "done", !.created = @ + 1]
        /\ UNCHANGED <<registry, store, last, files, storage, peers, game,
                       methods, modules, waiting>>

NextPatch ==
    \/ Register("LEADER_A", StringConfig(Str(WellFormedPath)))
    \/ \E method \in PatchedMethods, hostPresent \in BOOLEAN :
           InstallOverride(method, hostPresent)
    \/ \E method \in PatchedMethods, leaderID \in LeaderIds :
           \E originalThrows \in BOOLEAN, state \in { "neutral", "hostile" } :
               CallMethod(method, leaderID, originalThrows, state)
    \/ DelayFires
    \/ CreationFires
    \/ TimerFires

SpecPatch == Init /\ [][NextPatch]_vars

---------------------------------------------------------------------------
(* The waits and retries, in a window the modules are loaded into late or  *)
(* never                                                                   *)

\* the state of Init in a window that holds none of the modules yet
InitWaits ==
    /\ registry = EmptyMap
    /\ cache = EmptyMap
    /\ store = persistSharedRegistry(EmptyMap)
    /\ last = NoCall
    /\ files = {}
    /\ storage = "working"
    /\ peers = [p \in PeerIds |-> NotStarted]
    /\ game = NotLoaded
    /\ overlays = {}
    /\ timers = <<>>
    /\ methods = Unpatched
    /\ modules = {}
    /\ waiting = NotWaiting
    /\ display = NotDisplaying

\* a script of the mod has run and set its object on the window
ModuleLoads(module) ==
    /\ module \notin modules
    /\ modules' = modules \cup { module }
    /\ UNCHANGED <<registry, cache, store, last, files, storage, peers, game,
                   overlays, timers, methods, waiting, display>>

\* waitForConfig() is called: for LeaderOverlayImage in diplomacy-config.js,
\* for CustomLeaderConfig in leader-select-model-override.js
StartWaiting(module) ==
    /\ waiting.status = "idle"
    /\ ~DisplayInFlight
    /\ waiting' = waitForConfig(modules, module)
    /\ UNCHANGED <<registry, cache, store, last, files, storage, peers, game,
                   overlays, timers, methods, modules, display>>

\* the interval of waitForConfig fires
IntervalFires ==
    /\ waiting.interval
    /\ waiting' = checkInterval(modules, waiting)
    /\ UNCHANGED <<registry, cache, store, last, files, storage, peers, game,
                   overlays, timers, methods, modules, display>>

\* handleImageLeaderDisplay(leaderID, "right", context, state)
HandleImageLeaderDisplay(leaderID, state) ==
    LET shown == handleImageLeaderDisplay(registry, modules, overlays, timers,
                                          leaderID, state)
    IN  /\ display.status = "idle"
        /\ waiting.status # "waiting"
        /\ overlays' = shown.overlays
        /\ timers' = shown.timers
        /\ display' = IF shown.ret = True THEN shown.display ELSE display
        /\ last' = [state |-> state, ret |-> shown.ret, config |-> NoConfig,
                    id |-> leaderID, op |-> "handleImageLeaderDisplay",
                    replaced |-> FALSE]
        /\ UNCHANGED <<registry, cache, store, files, storage, peers, game,
                       methods, modules, waiting>>

\* the retry timer of attemptCreateOverlay fires:
\* attemptCreateOverlay(retryCount + 1)
RetryFires ==
    /\ display.status = "polling"
    /\ display' = attemptCreateOverlay(modules, display, display.retryCount + 1)
    /\ UNCHANGED <<registry, cache, store, last, files, storage, peers, game,
                   overlays, timers, methods, modules, waiting>>

NextWaits ==
    \/ Register("LEADER_A", StringConfig(Str(WellFormedPath)))
    \/ \E module \in AllModules : ModuleLoads(module)
    \/ \E module \in AllModules : StartWaiting(module)
    \/ IntervalFires
    \/ \E leaderID \in LeaderIds, state \in { "", "hostile" } :
           HandleImageLeaderDisplay(leaderID, state)
    \/ RetryFires
    \/ CreationFires

\* the step of display that CreationFires takes: the creation timer that
\* was set has fired
CreationDue ==
    /\ display.status = "scheduled"
    /\ display' = [display EXCEPT !.status = "done", !.created = @ + 1]

\* every timer and interval that is set fires: setInterval(..., 100) of
\* waitForConfig, setTimeout(..., 200) of the retry, setTimeout(..., 300) of
\* the creation
SpecWaits ==
    /\ InitWaits /\ [][NextWaits]_vars
    /\ WF_vars(IntervalFires) /\ WF_vars(RetryFires) /\ WF_display(CreationDue)

---------------------------------------------------------------------------
(* What the claims speak of *)

\* the states a caller may ask for: the ten recognised ones and QueryStates
AskedStates == (validStates \cup QueryStates) \ { "" }

\* what getImagePath(leaderID, state) returns in the current state
Result(leaderID, state) == getImagePath(registry, cache, leaderID, state).ret

\* the leader's base imagePath
BasePath(leaderID) == registry[leaderID].imagePath

\* the explicit diplomacyStates paths of the leader's current entry
ExplicitPaths(leaderID) ==
    LET ds == registry[leaderID].diplomacyStates
    IN  IF ds.kind = "object" THEN { ds.map[k] : k \in DOMAIN ds.map } ELSE {}

\* what one link of the chain yields: the explicit path if one is set,
\* otherwise what inference yields for the link, Null if neither
LinkYield(leaderID, link) ==
    LET ds == registry[leaderID].diplomacyStates
        inferred == tryInferStatePath(registry, cache, leaderID,
                                      BasePath(leaderID), link).ret
    IN  IF ds.kind = "object" /\ link \in DOMAIN ds.map /\ Truthy(ds.map[link])
        THEN ds.map[link]
        ELSE IF Truthy(inferred) THEN inferred ELSE Null

\* C1: for a registered leader and a non-empty state, getImagePath returns
\* what the first link of the state's fallback chain that hits yields
\* (explicit path if set, otherwise inferred path), and the base imagePath
\* when no link hits
C1_FirstHitOfChain ==
    \A leaderID \in DOMAIN registry : \A state \in AskedStates :
        LET chain == fallbackChainOf(state)
            hits == { i \in 1..Len(chain) : LinkYield(leaderID, chain[i]) # Null }
        IN  IF hits = {} THEN Result(leaderID, state) = BasePath(leaderID)
            ELSE \E i \in hits :
                    /\ \A j \in hits : i <= j
                    /\ Result(leaderID, state) = LinkYield(leaderID, chain[i])

\* a call for declaring_war answered by the second link of its chain
C1_Witness ==
    /\ last.op = "getImagePath" /\ last.id = "LEADER_A"
    /\ last.state = "declaring_war"
    /\ last.ret = Str(ExplicitPath("hostile"))
    /\ LinkYield("LEADER_A", "declaring_war") = Null

\* C2: getImagePath returns what a resolver without cache returns from the
\* current registry entry
C2_CacheNeverChangesAnswer ==
    \A leaderID \in DOMAIN registry : \A state \in AskedStates :
        Result(leaderID, state) = getImagePath(registry, EmptyMap, leaderID, state).ret

\* C3: with autoInferPaths === false in the current entry, getImagePath
\* returns one of the leader's explicit paths or its base imagePath
C3_NoInferenceWhenDisabled ==
    \A leaderID \in DOMAIN registry :
        registry[leaderID].autoInferPaths = False =>
            \A state \in AskedStates :
                Result(leaderID, state) \in
                    ExplicitPaths(leaderID) \cup { BasePath(leaderID) }

\* C4: for every registered leader and each of the ten recognised states the
\* fallback chain ends in neutral and getImagePath returns a non-empty string
C4_ChainEndsInNeutralAndPathIsString ==
    \A leaderID \in DOMAIN registry : \A state \in validStates :
        /\ fallbackChainOf(state)[Len(fallbackChainOf(state))] = "neutral"
        /\ Result(leaderID, state).t = "string"
        /\ Result(leaderID, state).s # <<>>

\* a call for declaring_war that no link answers and the base imagePath does
C4_Witness ==
    /\ last.op = "getImagePath" /\ last.id = "LEADER_A"
    /\ last.state = "declaring_war"
    /\ last.ret = Str(WellFormedPath)

\* C5: a stored entry's explicit states have recognised keys only, and no
\* path under another key is returned by getImagePath
C5_OnlyRecognisedStateKeys ==
    \A leaderID \in DOMAIN registry :
        LET ds == registry[leaderID].diplomacyStates
        IN  /\ DOMAIN ds.map \subseteq validStates
            /\ \A state \in AskedStates : \A k \in (DOMAIN ds.map) \ validStates :
                   Result(leaderID, state) # ds.map[k]

\* the calls C6 names: an empty or "RANDOM" leaderID, a config that is
\* neither string nor non-null object, an imagePath missing, empty or no string
C6_Rejected(leaderID, config) ==
    \/ leaderID \in { "", "RANDOM" }
    \/ config.kind \notin { "string", "object" }
    \/ config.kind = "string" /\ config.str = Str(<<>>)
    \/ config.kind = "object"
         /\ (config.obj.imagePath.t # "string" \/ config.obj.imagePath.s = <<>>)

\* C6: such a call returns false and leaves the registry, the inference
\* cache and the shared store as they were
C6_RejectionChangesNothing ==
    [][ (last'.op = "registerImageLeader" /\ C6_Rejected(last'.id, last'.config))
          => (last'.ret = False /\ registry' = registry /\ cache' = cache
                /\ store' = store) ]_vars

\* register("LEADER_A", {}) rejected with an entry, a cached path and a
\* persisted registry in place
C6_Witness ==
    /\ last.op = "registerImageLeader" /\ last.id = "LEADER_A"
    /\ last.config = ObjectConfig(NoObject)
    /\ last.ret = False
    /\ "LEADER_A" \in DOMAIN registry
    /\ cache # EmptyMap
    /\ store.json # EmptyMap

\* the calls C7 names: a valid leaderID and a non-empty string imagePath
C7_ValidIdAndPath(leaderID, config) ==
    /\ leaderID \notin { "", "RANDOM" }
    /\ \/ config.kind = "string" /\ config.str.s # <<>>
       \/ config.kind = "object" /\ config.obj.imagePath.t = "string"
            /\ config.obj.imagePath.s # <<>>

C7_ImagePathOf(config) ==
    IF config.kind = "string" THEN config.str ELSE config.obj.imagePath

\* C7 as claimed: such a call returns true and stores the entry whatever
\* its optional fields are
C7_AlwaysSucceeds ==
    (last.op = "registerImageLeader" /\ C7_ValidIdAndPath(last.id, last.config))
        => /\ last.ret = True
           /\ last.id \in DOMAIN registry
           /\ registry[last.id].imagePath = C7_ImagePathOf(last.config)

\* C7 as amended: such a call returns true and stores the entry when
\* displayOverrides and diplomacyStates are each undefined or a non-null
\* object, whatever they hold, and returns false when one of them is defined
\* and no non-null object
C7_SucceedsUnlessContainerIsNoObject ==
    (last.op = "registerImageLeader" /\ C7_ValidIdAndPath(last.id, last.config))
        => IF last.config.kind = "object"
              /\ "other" \in { last.config.obj.displayOverrides.kind,
                               last.config.obj.diplomacyStates.kind }
           THEN last.ret = False
           ELSE /\ last.ret = True
                /\ last.id \in DOMAIN registry
                /\ registry[last.id].imagePath = C7_ImagePathOf(last.config)

\* a registration with an unrecognised state key and an empty state path
C7_Witness ==
    /\ last.op = "registerImageLeader" /\ last.id = "LEADER_A"
    /\ last.config.obj.diplomacyStates =
           Container(("B_hostile" :> Num(<<"7">>)) @@ ("hostile" :> Str(<<>>)))
    /\ last.ret = True
    /\ registry["LEADER_A"].diplomacyStates = Container("B_hostile" :> Num(<<"7">>))

\* C8: after a successful registration the entry is the validated config of
\* that call alone, and getImagePath returns no explicit portrait that the
\* current entry does not hold
C8_ReRegistrationReplaces ==
    /\ (last.op = "registerImageLeader" /\ last.ret = True)
          => registry[last.id] =
                validatedConfig(IF last.config.kind = "string"
                                THEN ShorthandObject(last.config.str)
                                ELSE last.config.obj)
    /\ \A leaderID \in DOMAIN registry : \A state \in AskedStates :
          \A k \in StateKeyInputs :
              Result(leaderID, state) = Str(ExplicitPath(k))
                  => /\ k \in DOMAIN registry[leaderID].diplomacyStates.map
                     /\ registry[leaderID].diplomacyStates.map[k] = Str(ExplicitPath(k))

\* a string shorthand registered over a different entry, after a query
C8_Witness ==
    /\ last.op = "registerImageLeader" /\ last.id = "LEADER_A"
    /\ last.replaced
    /\ last.config = StringConfig(Str(WellFormedPath))
    /\ registry["LEADER_A"] = ShorthandObject(Str(WellFormedPath))
    /\ cache # EmptyMap

\* C9: with an explicit hostile path X, getImagePath(L, "declaring_war") is
\* X when the declaring_war link yields neither an explicit nor an inferred
\* path, and is the explicit declaring_war path when one is set
C9_ExplicitHostileForDeclaringWar ==
    \A leaderID \in DOMAIN registry :
        LET hostile == explicitStatePath(registry[leaderID], "hostile")
            declaring == explicitStatePath(registry[leaderID], "declaring_war")
        IN  Truthy(hostile) =>
              /\ LinkYield(leaderID, "declaring_war") = Null
                    => Result(leaderID, "declaring_war") = hostile
              /\ Truthy(declaring)
                    => Result(leaderID, "declaring_war") = declaring

\* inference switched off, hostile explicit: declaring_war gets the hostile path
C9_Witness ==
    /\ last.op = "getImagePath" /\ last.id = "LEADER_A"
    /\ last.state = "declaring_war"
    /\ last.ret = Str(ExplicitPath("hostile"))
    /\ registry["LEADER_A"].autoInferPaths = False
    /\ registry["LEADER_A"].imagePath = Str(WellFormedPath)

\* C10: a leader with default settings whose diplomacyStates configures
\* hostile but not declaring_war gets the hostile portrait for declaring_war
C10_FallsBackToConfiguredHostile ==
    \A leaderID \in DOMAIN registry :
        ( /\ registry[leaderID].autoInferPaths = Undefined
          /\ Truthy(explicitStatePath(registry[leaderID], "hostile"))
          /\ ~Truthy(explicitStatePath(registry[leaderID], "declaring_war")) )
        => Result(leaderID, "declaring_war")
               = explicitStatePath(registry[leaderID], "hostile")

\* the leaders C11 and C12 speak of: registered, inference not switched off,
\* a base path of the form directory + stem + extension
C11_Infers(leaderID) ==
    /\ registry[leaderID].autoInferPaths # False
    /\ BasePath(leaderID).t = "string"
    /\ ~cannotParse(BasePath(leaderID))

\* C11: for such a leader and each of the nine recognised states other than
\* neutral that has no explicit path, getImagePath returns directory + stem +
\* the first suffix of the state's template + extension of the current base path
C11_FirstSuffixOfCurrentBasePath ==
    \A leaderID \in DOMAIN registry : C11_Infers(leaderID) =>
        \A state \in validStates \ { "neutral" } :
            ~Truthy(explicitStatePath(registry[leaderID], state)) =>
                Result(leaderID, state) =
                    candidatePaths(BasePath(leaderID),
                                   AUTO_PORTRAIT_SUFFIX_TEMPLATES[state])[1]

\* C12: for such a leader and state, getImagePath returns the first of the
\* state's suffixed variants that exists as a file, and none of the variants
\* when none of them exists
C12_FirstVariantThatExists ==
    \A leaderID \in DOMAIN registry : C11_Infers(leaderID) =>
        \A state \in validStates \ { "neutral" } :
            ~Truthy(explicitStatePath(registry[leaderID], state)) =>
                LET candidates == candidatePaths(BasePath(leaderID),
                                      AUTO_PORTRAIT_SUFFIX_TEMPLATES[state])
                    found == { i \in DOMAIN candidates : candidates[i] \in files }
                IN  IF found = {}
                    THEN \A i \in DOMAIN candidates :
                             Result(leaderID, state) # candidates[i]
                    ELSE \E i \in found :
                             /\ \A j \in found : i <= j
                             /\ Result(leaderID, state) = candidates[i]

\* C13: for a registered leader without explicit states, getImagePath
\* returns the base imagePath at every state where nothing can be inferred:
\* neutral, an unrecognised state, any state with autoInferPaths === false,
\* any state with a base path that cannot be parsed
C13_BasePathWhereNothingInferred ==
    \A leaderID \in DOMAIN registry :
        ExplicitPaths(leaderID) = {} =>
            \A state \in AskedStates :
                ( \/ state = "neutral"
                  \/ state \notin validStates
                  \/ registry[leaderID].autoInferPaths = False
                  \/ cannotParse(BasePath(leaderID)) )
                => Result(leaderID, state) = BasePath(leaderID)

\* C14: for every registered leader a call of getImagePath without state
\* returns the leader's base imagePath, whatever its explicit states (an
\* explicit neutral included) and whatever the cache holds
C14_NoStateGivesBasePath ==
    /\ \A leaderID \in DOMAIN registry : Result(leaderID, "") = BasePath(leaderID)
    /\ (last.op = "getImagePath" /\ last.state = "" /\ last.id \in DOMAIN registry)
          => last.ret = BasePath(last.id)

\* a call without state on a leader with an explicit neutral portrait and
\* cached inferred paths
C14_Witness ==
    /\ last.op = "getImagePath" /\ last.id = "LEADER_A" /\ last.state = ""
    /\ last.ret = Str(WellFormedPath)
    /\ explicitStatePath(registry["LEADER_A"], "neutral") = Str(ExplicitPath("neutral"))
    /\ cacheKeyOf("LEADER_A", "hostile") \in DOMAIN cache

C20_MultipliersAreFinite ==
    \A leaderID \in DOMAIN registry : \A panelType \in SurfaceNames :
        LET displayConfig == getImageDisplayConfig(registry, leaderID, panelType)
        IN  /\ IsFiniteNumber(displayConfig.widthMultiplier)
            /\ IsFiniteNumber(displayConfig.leftOffsetMultiplier)
            /\ IsFiniteNumber(displayConfig.topOffsetMultiplier)

\* the registries of the contexts that run the module
RegistryOf(context) == IF context = "" THEN registry ELSE peers[context].registry

\* C16: a load from the shared store (at a context's initialisation and at
\* the game scope's) leaves every entry that is in the local table as it is
\* and adds the persisted entry for exactly the leader ids the table lacks
C16_LoadOnlyAddsAbsentIds ==
    [][ /\ last'.op = "peerStartup" =>
             LET local == existingLeadersOf(last'.state)
                 loaded == peers'[last'.id].registry
             IN  /\ \A leaderID \in DOMAIN local : loaded[leaderID] = local[leaderID]
                 /\ DOMAIN loaded = (DOMAIN local) \cup (DOMAIN store.json)
                 /\ \A leaderID \in (DOMAIN loaded) \ (DOMAIN local) :
                        loaded[leaderID] = store.json[leaderID]
        /\ last'.op = "gameLoad" =>
             LET local == DIPLOMACY_TEST_IMAGE_LEADERS
                 loaded == game'.table
             IN  /\ \A leaderID \in DOMAIN local : loaded[leaderID] = local[leaderID]
                 /\ DOMAIN store.json \subseteq DOMAIN loaded
                 /\ \A leaderID \in (DOMAIN store.json) \ (DOMAIN local) :
                        loaded[leaderID] = store.json[leaderID]
      ]_vars

\* a context initialised with LEADER_A from a previous window.CustomLeaderConfig
\* while the store held another entry for LEADER_A
C16_Witness ==
    /\ last.op = "peerStartup" /\ last.state = "window" /\ last.replaced
    /\ peers[last.id].registry["LEADER_A"] = ShorthandObject(Str(WellFormedPath))
    /\ "LEADER_YUNI" \in DOMAIN peers[last.id].registry

\* C17: with working storage a successful registerImageLeader call leaves
\* in the store the serialization of the whole registry of the context that
\* registered, and nothing else
C17_StoreHoldsWholeRegistry ==
    (storage = "working" /\ last.ret = True
       /\ last.op \in { "registerImageLeader", "peerRegister" })
    => LET reg == RegistryOf(last.state)
       IN  /\ store.present
           /\ DOMAIN store.json = DOMAIN reg
           /\ \A leaderID \in DOMAIN reg :
                  store.json[leaderID] = jsonConfig(reg[leaderID])

\* a registration in a context whose registry lacks a leader the store held
C17_Witness ==
    /\ last.op = "peerRegister" /\ last.ret = True /\ last.replaced
    /\ "LEADER_A_B" \notin DOMAIN store.json
    /\ "LEADER_A_B" \in DOMAIN registry
    /\ Cardinality(DOMAIN store.json) = 2

\* C18: on a localStorage that is undefined or throws, no call ends in an
\* exception, nothing is written, a registration returns and stores what
\* registerImageLeader computes from the registry alone (true for a valid
\* id and imagePath), a query returns what the resolver computes from the
\* registry and the cache alone, and an initialisation keeps the entries of
\* the previous window.CustomLeaderConfig
C18_StorageFailureChangesNoResult ==
    [][ storage # "working" =>
          /\ last'.ret # Thrown
          /\ store' = store
          /\ last'.op = "registerImageLeader" =>
                LET r == registerImageLeader(registry, last'.id, last'.config)
                IN  /\ last'.ret = Bool(r.ret)
                    /\ registry' = r.registry
                    /\ ( /\ C7_ValidIdAndPath(last'.id, last'.config)
                         /\ last'.config.obj.displayOverrides.kind # "other"
                         /\ last'.config.obj.diplomacyStates.kind # "other" )
                       => (last'.ret = True /\ isImageLeader(registry', last'.id))
          /\ last'.op = "getImagePath" =>
                last'.ret = getImagePath(registry, cache, last'.id, last'.state).ret
          /\ last'.op = "getImageDisplayConfig" =>
                last'.ret = getImageDisplayConfig(registry, last'.id, last'.state)
          /\ last'.op = "peerStartup" =>
                peers'[last'.id].registry = existingLeadersOf(last'.state)
      ]_vars

\* a registration that succeeds, after a query, on a localStorage that throws
C18_Witness ==
    /\ storage = "throws"
    /\ last.op = "registerImageLeader" /\ last.id = "LEADER_A" /\ last.ret = True
    /\ isImageLeader(registry, "LEADER_A")
    /\ cache # EmptyMap
    /\ store = NoItem

\* the leader ids registered so far: the keys of the registries of the
\* contexts that have started
C19_RegisteredSomewhere ==
    (DOMAIN registry) \cup
    UNION { DOMAIN peers[q].registry : q \in { x \in PeerIds : peers[x].started } }

\* C19 as claimed: a context that starts reports every leader that any
\* context has registered before
C19_SeenByEveryLaterStartup ==
    [][ last'.op = "peerStartup" =>
          \A leaderID \in C19_RegisteredSomewhere :
              isImageLeader(peers'[last'.id].registry, leaderID) ]_vars

\* C19 as amended: a successful registration puts its leader in the store, a
\* context that starts reports every leader the store holds at its load, and
\* a leader leaves the store only by the write of a context whose registry
\* lacks it
C19_SeenWhileStoreHoldsIt ==
    [][ /\ (last'.op \in { "registerImageLeader", "peerRegister" }
              /\ last'.ret = True)
            => last'.id \in DOMAIN store'.json
        /\ last'.op = "peerStartup" =>
              \A leaderID \in DOMAIN store.json :
                  isImageLeader(peers'[last'.id].registry, leaderID)
        /\ \A leaderID \in (DOMAIN store.json) \ (DOMAIN store'.json) :
              /\ last'.op \in { "registerImageLeader", "peerRegister" }
              /\ leaderID \notin DOMAIN (IF last'.op = "registerImageLeader"
                                          THEN registry'
                                          ELSE peers'[last'.state].registry)
      ]_vars

\* a context that starts in a window of its own and reports LEADER_YUNI,
\* which another context registered and the observed context never had
C19_Witness ==
    /\ last.op = "peerStartup" /\ last.id = "P2" /\ last.state = ""
    /\ isImageLeader(peers["P2"].registry, "LEADER_YUNI")
    /\ isImageLeader(peers["P1"].registry, "LEADER_YUNI")
    /\ ~isImageLeader(registry, "LEADER_YUNI")

\* the fields of a display configuration
GeometryFields ==
    { "widthMultiplier", "leftOffsetMultiplier", "topOffsetMultiplier", "position" }

\* the leader's stored override of a surface: NoOverride when it has none
C21_Override(leaderID, surface) ==
    LET do == registry[leaderID].displayOverrides
    IN  IF do.kind = "object" /\ surface \in DOMAIN do.map THEN do.map[surface]
        ELSE NoOverride

\* C21: for a registered leader, a query for age-select, civ-select,
\* game-setup or setup-panels returns, field by field, the leader's
\* setup-panels override where it defines the field and the setup-panels
\* default elsewhere: with the override {widthMultiplier: 2} it returns
\* widthMultiplier 2 with the default offsets and position of setup-panels
C21_AliasesResolveAsSetupPanels ==
    /\ \A leaderID \in DOMAIN registry :
          \A panelType \in { "age-select", "civ-select", "game-setup", "setup-panels" } :
              LET displayConfig == getImageDisplayConfig(registry, leaderID, panelType)
                  override == C21_Override(leaderID, "setup-panels")
              IN  /\ \A f \in GeometryFields :
                         displayConfig[f] =
                             IF override[f] # Undefined THEN override[f]
                             ELSE PANEL_DISPLAY_CONFIGS["setup-panels"][f]
                  /\ override = Panel(Num(<<"2">>), Undefined) =>
                         displayConfig =
                             [ t |-> "object",
                               widthMultiplier |-> Num(<<"2">>),
                               leftOffsetMultiplier |-> Num(<<"-0.21">>),
                               topOffsetMultiplier |-> Num(<<"0.2">>),
                               position |-> Str(<<"center">>) ]
    /\ ( /\ last.op = "getImageDisplayConfig" /\ last.id \in DOMAIN registry
         /\ last.state \in { "age-select", "civ-select", "game-setup" } )
          => last.ret = getImageDisplayConfig(registry, last.id, "setup-panels")

\* civ-select asked for a leader registered with
\* displayOverrides {"setup-panels": {widthMultiplier: 2}}
C21_Witness ==
    /\ last.op = "getImageDisplayConfig" /\ last.id = "LEADER_A"
    /\ last.state = "civ-select"
    /\ "LEADER_A" \in DOMAIN registry
    /\ C21_Override("LEADER_A", "setup-panels") = Panel(Num(<<"2">>), Undefined)
    /\ last.ret.widthMultiplier = Num(<<"2">>)
    /\ last.ret.leftOffsetMultiplier = Num(<<"-0.21">>)

\* the constants of the last level
HardcodedGeometry ==
    [ widthMultiplier |-> Num(<<"3.5">>), leftOffsetMultiplier |-> Num(<<"0.5">>),
      topOffsetMultiplier |-> Num(<<"0">>), position |-> Str(<<"center">>) ]

\* C22 as claimed: each field is the leader's override for the aliased
\* surface where defined, else the field of that surface's own default
\* profile, else the hardcoded constant; a surface without a profile and
\* without an override gets the hardcoded constants
C22_HardcodedWhereNoProfile ==
    \A leaderID \in DOMAIN registry : \A panelType \in SurfaceNames :
        LET surface == mappedPanelTypeOf(panelType)
            displayConfig == getImageDisplayConfig(registry, leaderID, panelType)
            override == C21_Override(leaderID, surface)
        IN  \A f \in GeometryFields :
                displayConfig[f] =
                    IF override[f] # Undefined THEN override[f]
                    ELSE IF surface \in validPanels
                         THEN PANEL_DISPLAY_CONFIGS[surface][f]
                         ELSE HardcodedGeometry[f]

\* C22 as amended: each field is the leader's override for the aliased
\* surface where defined, else the field of that surface's default profile,
\* and of the leader-select profile when the surface has none; every
\* profile defines every field, so a hardcoded constant is returned only
\* for a surface named as a property the table of profiles inherits
C22_LeaderSelectWhereNoProfile ==
    /\ \A leaderID \in DOMAIN registry : \A panelType \in SurfaceNames :
          LET surface == mappedPanelTypeOf(panelType)
              displayConfig == getImageDisplayConfig(registry, leaderID, panelType)
              override == C21_Override(leaderID, surface)
          IN  \A f \in GeometryFields :
                  displayConfig[f] =
                      IF override[f] # Undefined THEN override[f]
                      ELSE IF surface \in validPanels
                           THEN PANEL_DISPLAY_CONFIGS[surface][f]
                      ELSE IF surface \in ObjectPrototypeKeys
                           THEN HardcodedGeometry[f]
                           ELSE PANEL_DISPLAY_CONFIGS["leader-select"][f]
    /\ \A surface \in validPanels : \A f \in GeometryFields :
          PANEL_DISPLAY_CONFIGS[surface][f] # Undefined

\* a surface without a profile asked for a leader without overrides and
\* answered with the defaults of leader-select
C22_Witness ==
    /\ last.op = "getImageDisplayConfig" /\ last.id = "LEADER_A"
    /\ last.state = "minimap"
    /\ "LEADER_A" \in DOMAIN registry
    /\ registry["LEADER_A"].displayOverrides = NoContainer
    /\ last.ret.widthMultiplier = Num(<<"0.8">>)
    /\ last.ret.position = Str(<<"center">>)

\* whether the text a signal spells contains the word
C23_Contains(signal, word) ==
    signal.t = "string" /\
    \E i \in 1..Len(signal.s) :
        \A k \in 1..Len(word) :
            i + k - 1 <= Len(signal.s) /\ signal.s[i + k - 1] = word[k]

\* C23: getDiplomacyInitialState(signal, isAtWar) is hostile when isAtWar is
\* true; otherwise hostile when the signal's text contains HOSTILE or
\* UNFRIENDLY; otherwise friendly when it contains FRIENDLY or HELPFUL;
\* otherwise neutral, as for a null signal
C23_ClassifiesByWarThenText ==
    last.op = "getDiplomacyInitialState" =>
        LET signal == last.config.str
            isAtWar == last.replaced
        IN  /\ last.ret \in { Str(<<"hostile">>), Str(<<"friendly">>), Str(<<"neutral">>) }
            /\ last.ret =
                  IF isAtWar THEN Str(<<"hostile">>)
                  ELSE IF C23_Contains(signal, <<"HOSTILE">>)
                          \/ C23_Contains(signal, <<"UN", "FRIENDLY">>)
                      THEN Str(<<"hostile">>)
                  ELSE IF C23_Contains(signal, <<"FRIENDLY">>)
                          \/ C23_Contains(signal, <<"HELPFUL">>)
                      THEN Str(<<"friendly">>)
                  ELSE Str(<<"neutral">>)
            /\ (signal = Null /\ ~isAtWar) => last.ret = Str(<<"neutral">>)

\* PLAYER_RELATIONSHIP_UNFRIENDLY classified without war
C23_Witness ==
    /\ last.op = "getDiplomacyInitialState"
    /\ last.config.str = Str(<<"PLAYER_RELATIONSHIP_", "UN", "FRIENDLY">>)
    /\ ~last.replaced
    /\ last.ret = Str(<<"hostile">>)

\* C24: no call of isImageLeader, getImagePath, getImageDisplayConfig or
\* getDiplomacyInitialState ends in an exception, whatever the leader id
\* (registered, unregistered, empty, loaded from the store with a malformed
\* entry) and whatever the state or surface string
C24_ResolversNeverRaise ==
    /\ last.ret # Thrown
    /\ \A leaderID \in LeaderIds \cup InvalidIds : \A state \in TotalityStates :
          getImagePath(registry, cache, leaderID, state).ret # Thrown

\* C25: from every reachable registry and cache, getImagePath(L, s) called
\* twice in a row returns the same value both times, for every leader L and
\* every state s, also when the first call puts a path in the cache
C25_SecondCallReturnsTheSame ==
    /\ \A leaderID \in LeaderIds \cup InvalidIds : \A state \in AskedStates \cup { "" } :
          LET first == getImagePath(registry, cache, leaderID, state)
              second == getImagePath(registry, first.cache, leaderID, state)
          IN  second.ret = first.ret
    /\ last.op = "getImagePath"
          => getImagePath(registry, cache, last.id, last.state).ret = last.ret

\* a call that inferred the declaring_war portrait and left it in the cache
C25_Witness ==
    /\ last.op = "getImagePath" /\ last.id = "LEADER_A"
    /\ last.state = "declaring_war"
    /\ last.ret = candidatePaths(Str(WellFormedPath),
                                 AUTO_PORTRAIT_SUFFIX_TEMPLATES["declaring_war"])[1]
    /\ cacheKeyOf("LEADER_A", "declaring_war") \in DOMAIN cache
    /\ cache[cacheKeyOf("LEADER_A", "declaring_war")] = last.ret

\* what inference yields for the leader at one link, Null if nothing
C26_Inferred(leaderID, link) ==
    LET inferred == tryInferStatePath(registry, cache, leaderID,
                                      BasePath(leaderID), link).ret
    IN  IF Truthy(inferred) THEN inferred ELSE Null

C28_OtherLeadersNeverChangeAnswer ==
    [][ \A leaderID \in LeaderIds :
          (last'.op \in { "registerImageLeader", "getImagePath" }
             /\ last'.id # leaderID)
          => \A state \in AskedStates \cup { "" } :
                 getImagePath(registry', cache', leaderID, state).ret
                     = getImagePath(registry, cache, leaderID, state).ret ]_vars

\* C30: in every context no step removes a key of the registry, and the
\* entry of a leader id changes only by a registerImageLeader call of that
\* context for that id that returns true; a load at a context's start
\* leaves the entries it starts with (those of the previous
\* window.CustomLeaderConfig) as they are
C30_EntriesChangeOnlyByOwnRegistration ==
    [][ /\ \A leaderID \in DOMAIN registry :
              /\ leaderID \in DOMAIN registry'
              /\ registry'[leaderID] # registry[leaderID]
                    => /\ last'.op = "registerImageLeader"
                       /\ last'.id = leaderID
                       /\ last'.ret = True
        /\ \A p \in PeerIds : \A leaderID \in DOMAIN peers[p].registry :
              /\ leaderID \in DOMAIN peers'[p].registry
              /\ peers'[p].registry[leaderID] # peers[p].registry[leaderID]
                    => /\ last'.op = "peerRegister"
                       /\ last'.state = p
                       /\ last'.id = leaderID
                       /\ last'.ret = True
        /\ last'.op = "peerStartup" =>
              \A leaderID \in DOMAIN existingLeadersOf(last'.state) :
                  /\ leaderID \in DOMAIN peers'[last'.id].registry
                  /\ peers'[last'.id].registry[leaderID]
                        = existingLeadersOf(last'.state)[leaderID]
      ]_vars

\* a registration of LEADER_A_B rejected while LEADER_A is registered in the
\* observed context with one entry and in another context with another
C30_Witness ==
    /\ last.op = "registerImageLeader" /\ last.id = "LEADER_A_B"
    /\ last.ret = False
    /\ "LEADER_A" \in DOMAIN registry
    /\ peers["P1"].started
    /\ "LEADER_A" \in DOMAIN peers["P1"].registry
    /\ peers["P1"].registry["LEADER_A"] # registry["LEADER_A"]
    /\ cache # EmptyMap

\* C27: once every pending timer has fired after a call of
\* tryCreateDiplomacyImageOverlay(L, pos, ., s) for a registered image leader
\* with a resolvable path, and no removal has been requested since, an
\* overlay element for pos is attached, also when an overlay for pos was
\* attached at the time of the call
C27_OverlayPresentAfterCreate ==
    ( /\ last.op = "tryCreateDiplomacyImageOverlay"
      /\ isImageLeader(registry, last.id)
      /\ Truthy(getImagePath(registry, cache, last.id, "").ret)
      /\ timers = <<>> )
    => \E e \in overlays : e.position = last.state

\* C29: immediatelyRemoveImageOverlay("left") and ("right") leave the
\* overlay of the other side attached and set no timer that removes it
C29_RemovesOnlyItsSide ==
    [][ (last'.op = "immediatelyRemoveImageOverlay" /\ last'.state # "center")
          => \A e \in overlays :
                 e.position \notin { last'.state, "center" }
                 => /\ e \in overlays'
                    /\ Cardinality({ i \in 1..Len(timers') : timers'[i] = e.id })
                          = Cardinality({ i \in 1..Len(timers) : timers[i] = e.id })
      ]_vars

\* C31: for a registered leader and a query state outside the ten recognised
\* names, getImagePath returns the leader's explicit neutral path if one is
\* configured and its base imagePath otherwise
C31_UnrecognisedStateResolvesAsNeutral ==
    \A leaderID \in DOMAIN registry : \A state \in AskedStates \ validStates :
        Result(leaderID, state) =
            IF Truthy(explicitStatePath(registry[leaderID], "neutral"))
            THEN explicitStatePath(registry[leaderID], "neutral")
            ELSE BasePath(leaderID)

C33_ImageLeaderHasPath ==
    \A leaderID \in LeaderIds \cup InvalidIds :
        isImageLeader(registry, leaderID) =>
            \A state \in TotalityStates :
                /\ Result(leaderID, state).t = "string"
                /\ Result(leaderID, state).s # <<>>

\* C34: the initialisation of a context leaves in the store every leader id
\* the store held before it, and so does a registration made in a context
\* while the store holds what that context wrote last
C34_StartupKeepsStoredIds ==
    [][ /\ last'.op = "peerStartup" =>
             /\ store'.present
             /\ DOMAIN store.json \subseteq DOMAIN store'.json
        /\ ( /\ last'.op \in { "registerImageLeader", "peerRegister" }
             /\ store = persistSharedRegistry(RegistryOf(last'.state)) )
           => /\ store'.present
              /\ DOMAIN store.json \subseteq DOMAIN store'.json
      ]_vars

\* a context started on a store that held LEADER_A and LEADER_A_B, then
\* registered LEADER_YUNI: the store holds all three
C34_Witness ==
    /\ last.op = "peerRegister" /\ last.id = "LEADER_YUNI" /\ last.ret = True
    /\ store.present
    /\ DOMAIN store.json = { "LEADER_A", "LEADER_A_B", "LEADER_YUNI" }
    /\ store = persistSharedRegistry(peers[last.state].registry)

\* C35: once the game scope has loaded a table equal to the shell's
\* registry, diplomacyGetImagePath returns what the shell's getImagePath
\* returns, for every leader and state, whatever was asked before in
\* either scope
C35_GameScopeAgreesWithShell ==
    (game.loaded /\ game.table = registry) =>
        \A leaderID \in GameScopeIds \cup InvalidIds : \A state \in GameScopeStates :
            diplomacyGetImagePath(game.table, game.cache, leaderID, state).ret
                = getImagePath(registry, cache, leaderID, state).ret

\* C36: however often the installers ran, no method is wrapped more than
\* once, and one call of a wrapped method runs the host's original exactly
\* once for a leader that is no image leader and, for an image leader, does
\* not run the original that loads the 3D model (swapLeaderInfo loads none)
C36_WrappedOnceCalledOnce ==
    /\ \A method \in PatchedMethods : methods[method] <= 1
    /\ (last.op = "callMethod" /\ isOverridden(methods, last.state)) =>
          IF isImageLeader(registry, last.id)
          THEN last.state # "swapLeaderInfo" => methods["invoked"] = 0
          ELSE methods["invoked"] = 1

\* what holds of the retries and the wait in every state
C37_Bounded ==
    /\ display.retryCount <= maxRetries
    /\ display.created <= 1
    /\ display.created = 1 <=> display.status = "done"
    /\ display.status \in { "scheduled", "done" } => "LeaderOverlayImage" \in modules
    /\ display.status = "gaveUp" => display.retryCount = maxRetries
    /\ waiting.attempts <= maxAttempts
    /\ waiting.interval <=> waiting.status = "waiting"
    /\ waiting.interval => waiting.attempts < maxAttempts
    \* the creation that is due is a step MaxTimers leaves open
    /\ display.status = "scheduled" =>
          Len(tryCreateDiplomacyImageOverlay(registry, cache, overlays, timers,
                  display.id, "right", finalStateOf(display.state)).timers)
              <= MaxTimers

\* what holds of every step of the retries
C37_Step ==
    /\ (display'.status = "gaveUp" /\ display.status # "gaveUp")
         => "LeaderOverlayImage" \notin modules
    /\ (display.status = "polling" /\ display' # display
           /\ "LeaderOverlayImage" \in modules)
         => display'.status = "scheduled"
    /\ display'.created >= display.created

\* C37: handleImageLeaderDisplay for an image leader polls again at most
\* maxRetries = 10 times and calls tryCreateDiplomacyImageOverlay at most
\* once, exactly once when LeaderOverlayImage is there at one of its polls
\* and never when it is not; waitForConfig resolves after at most
\* maxAttempts = 50 runs of its interval, which is then cleared; and both
\* end whether or not the module ever appears
C37_WaitsTerminate ==
    /\ []C37_Bounded
    /\ [][C37_Step]_vars
    /\ DisplayInFlight ~> display.status \in { "done", "gaveUp" }
    /\ waiting.status = "waiting" ~> waiting.status = "resolved"

\* a wait that resolved at its last run without CustomLeaderConfig, and an
\* image display that found LeaderOverlayImage at its last poll and created
\* the overlay
C37_Witness ==
    /\ waiting.status = "resolved" /\ waiting.attempts = maxAttempts
    /\ waiting.module \notin modules
    /\ display.status = "done" /\ display.retryCount = maxRetries
    /\ display.created = 1
    /\ \E e \in overlays : e.position = "right"

====
